---- MODULE Spec2Model ----
(***************************************************************************)
(* Suspicious-activity detection service: the in-memory entity /           *)
(* transaction graph (app/graph_service.py), the keyword embedding cache   *)
(* (app/ai_service.py) and the HTTP handlers that drive them               *)
(* (app/routes.py).                                                        *)
(*                                                                         *)
(* Conventions                                                             *)
(*  - A Python dict is a function whose DOMAIN is the set of keys present; *)
(*    d.get(k, default) reads as IF k \in DOMAIN d THEN d[k] ELSE default. *)
(*  - Entity risk scores and pattern confidences are fixed-point numbers   *)
(*    in hundredths (0.25 is 25); IEEE rounding of these sums is not       *)
(*    modelled.  Embeddings, similarities and the score of a risk          *)
(*    analysis are floats, rounded at every operation.                     *)
(*  - Time is counted in whole hours; a datetime is an integer.            *)
(*  - A narrative is represented by the set of table keywords that occur   *)
(*    in its lower-cased text (all the code ever asks of the text).        *)
(***************************************************************************)
EXTENDS Integers, Sequences, FiniteSets, TLC

VARIABLES
    graph_service,  \* routes.py:21  the GraphRAGService singleton
    ai_service,     \* routes.py:22  the AIAnalysisService singleton
    now,            \* the wall clock read by datetime.now()
    request,        \* the last request or call: [op, ...]
    response,       \* the answer to it
    before,         \* graph_service as it was when that request arrived
    posts,          \* number of POST requests answered so far
    threads,        \* per worker thread, the request it is handling
    serial          \* the store, had each threaded request run on its own

vars ==
    <<graph_service, ai_service, now, request, response, before, posts, threads,
      serial>>

---------------------------------------------------------------------------
(* Bounds of the model *)

MaxRequests == 3
MaxTransactions == 3
MaxDepth == 2
MaxDetectTransactions == 8
MaxTicks == 1
MaxCycleTransactions == 13
SignificandBits == 8
MaxThreadRequests == 4
MaxBandTransactions == 5
MaxRapidTransactions == 16
MaxScoreRequests == 4
MaxSimilarRequests == 4
MaxConnections == 11
MaxSarCount == 4
MaxPatternCount == 5

---------------------------------------------------------------------------
(* Dict helpers *)

EmptyDict == [k \in {} |-> 0]

Put(d, k, v) == [x \in DOMAIN d \cup {k} |-> IF x = k THEN v ELSE d[x]]

Get(d, k, default) == IF k \in DOMAIN d THEN d[k] ELSE default

Min(a, b) == IF a <= b THEN a ELSE b

---------------------------------------------------------------------------
(* app/models.py *)

RiskLevel == {"LOW", "MEDIUM", "HIGH", "CRITICAL"}

ActivityType ==
    {"STRUCTURING", "MONEY_LAUNDERING", "FRAUD", "TERRORIST_FINANCING",
     "UNUSUAL_TRANSACTION", "MULTIPLE_ACCOUNTS", "HIGH_RISK_JURISDICTION"}

\* str.upper() on the strings that occur in the payloads of this model
upper(s) ==
    CASE s = "low" -> "LOW"
      [] s = "medium" -> "MEDIUM"
      [] s = "high" -> "HIGH"
      [] s = "critical" -> "CRITICAL"
      [] s = "structuring" -> "STRUCTURING"
      [] s = "fraud" -> "FRAUD"
      [] s = "bogus" -> "BOGUS"
      [] OTHER -> s

\* Entity(...), with the dataclass defaults for risk_score and risk_level
Entity(entity_id, name, entity_type, risk_score, risk_level) ==
    [entity_id |-> entity_id, name |-> name, entity_type |-> entity_type,
     risk_score |-> risk_score, risk_level |-> risk_level]

Transaction(transaction_id, timestamp, amount, sender_id, receiver_id, transaction_type) ==
    [transaction_id |-> transaction_id, timestamp |-> timestamp, amount |-> amount,
     sender_id |-> sender_id, receiver_id |-> receiver_id,
     transaction_type |-> transaction_type]

SAR(sar_id, activity_type, entities_involved, narrative, risk_level) ==
    [sar_id |-> sar_id, activity_type |-> activity_type,
     entities_involved |-> entities_involved, narrative |-> narrative,
     risk_level |-> risk_level]

---------------------------------------------------------------------------
(* app/graph_service.py : GraphRAGService *)

GraphRAGService_init ==
    [graph_nodes |-> EmptyDict,    \* nx.DiGraph node -> attribute dict
     graph_edges |-> EmptyDict,    \* nx.DiGraph <<u, v>> -> attribute dict
     entities |-> EmptyDict,
     transactions |-> EmptyDict,
     sars |-> EmptyDict]

\* DiGraph.add_node(n, **attr): creates the node or updates its attributes
nx_add_node(nodes, n, attr) ==
    Put(nodes, n,
        IF n \in DOMAIN nodes
        THEN [k \in DOMAIN nodes[n] \cup DOMAIN attr |->
                 IF k \in DOMAIN attr THEN attr[k] ELSE nodes[n][k]]
        ELSE attr)

\* DiGraph.add_edge(u, v, **attr): one edge per ordered pair; adding it again
\* updates the attributes of the edge that is there
nx_add_edge(edges, u, v, attr) ==
    Put(edges, <<u, v>>,
        IF <<u, v>> \in DOMAIN edges
        THEN [k \in DOMAIN edges[<<u, v>>] \cup DOMAIN attr |->
                 IF k \in DOMAIN attr THEN attr[k] ELSE edges[<<u, v>>][k]]
        ELSE attr)

\* add_entity as a merge that keeps the risk fields of an entity already stored
add_entity_keeping_risk(self, entity) ==
    LET kept == IF entity.entity_id \in DOMAIN self.entities
                THEN [entity EXCEPT
                         !.risk_score = self.entities[entity.entity_id].risk_score,
                         !.risk_level = self.entities[entity.entity_id].risk_level]
                ELSE entity
    IN  [self EXCEPT
            !.entities = Put(@, entity.entity_id, kept),
            !.graph_nodes = nx_add_node(@, entity.entity_id,
                [type |-> "entity", name |-> kept.name,
                 entity_type |-> kept.entity_type,
                 risk_score |-> kept.risk_score])]

GraphRAGService_add_entity(self, entity) ==
    [self EXCEPT
        !.entities = Put(@, entity.entity_id, entity),
        !.graph_nodes = nx_add_node(@, entity.entity_id,
            [type |-> "entity", name |-> entity.name,
             entity_type |-> entity.entity_type,
             risk_score |-> entity.risk_score])]

\* add_transaction that declares its unknown endpoints as entities
add_transaction_declaring_stubs(self, transaction) ==
    LET stub(e) == Entity(e, e, "unknown", 0, "LOW")
        declared(entities, e) ==
            IF e \in DOMAIN self.graph_nodes THEN entities ELSE Put(entities, e, stub(e))
        n1 == IF transaction.sender_id \notin DOMAIN self.graph_nodes
              THEN nx_add_node(self.graph_nodes, transaction.sender_id,
                               [type |-> "entity"])
              ELSE self.graph_nodes
        n2 == IF transaction.receiver_id \notin DOMAIN n1
              THEN nx_add_node(n1, transaction.receiver_id, [type |-> "entity"])
              ELSE n1
    IN  [self EXCEPT
            !.entities = declared(declared(@, transaction.sender_id),
                                  transaction.receiver_id),
            !.transactions = Put(@, transaction.transaction_id, transaction),
            !.graph_nodes = n2,
            !.graph_edges = nx_add_edge(@, transaction.sender_id,
                transaction.receiver_id,
                [transaction_id |-> transaction.transaction_id,
                 amount |-> transaction.amount,
                 timestamp |-> transaction.timestamp,
                 transaction_type |-> transaction.transaction_type])]

\* add_transaction as a replacement: the edge of a transaction stored under
\* the same id is taken out of the graph before the new one is added
add_transaction_moving_edge(self, transaction) ==
    LET old == IF transaction.transaction_id \in DOMAIN self.transactions
               THEN {<<self.transactions[transaction.transaction_id].sender_id,
                       self.transactions[transaction.transaction_id].receiver_id>>}
               ELSE {}
        kept == [x \in DOMAIN self.graph_edges \ old |-> self.graph_edges[x]]
        n1 == nx_add_node(self.graph_nodes, transaction.sender_id, [type |-> "entity"])
        n2 == nx_add_node(n1, transaction.receiver_id, [type |-> "entity"])
    IN  [self EXCEPT
            !.transactions = Put(@, transaction.transaction_id, transaction),
            !.graph_nodes = n2,
            !.graph_edges = nx_add_edge(kept, transaction.sender_id,
                transaction.receiver_id,
                [transaction_id |-> transaction.transaction_id,
                 amount |-> transaction.amount,
                 timestamp |-> transaction.timestamp,
                 transaction_type |-> transaction.transaction_type])]

GraphRAGService_add_transaction(self, transaction) ==
    LET n1 == IF transaction.sender_id \notin DOMAIN self.graph_nodes
              THEN nx_add_node(self.graph_nodes, transaction.sender_id,
                               [type |-> "entity"])
              ELSE self.graph_nodes
        n2 == IF transaction.receiver_id \notin DOMAIN n1
              THEN nx_add_node(n1, transaction.receiver_id, [type |-> "entity"])
              ELSE n1
    IN  [self EXCEPT
            !.transactions = Put(@, transaction.transaction_id, transaction),
            !.graph_nodes = n2,
            !.graph_edges = nx_add_edge(@, transaction.sender_id,
                transaction.receiver_id,
                [transaction_id |-> transaction.transaction_id,
                 amount |-> transaction.amount,
                 timestamp |-> transaction.timestamp,
                 transaction_type |-> transaction.transaction_type])]

\* the risk_increase table of add_sar, in hundredths
risk_increase(risk_level) ==
    CASE risk_level = "LOW" -> 10
      [] risk_level = "MEDIUM" -> 25
      [] risk_level = "HIGH" -> 50
      [] risk_level = "CRITICAL" -> 80
      [] OTHER -> 10

\* the if-chain that derives a level from a score, in hundredths
level_of_score(score) ==
    IF score >= 80 THEN "CRITICAL"
    ELSE IF score >= 60 THEN "HIGH"
    ELSE IF score >= 30 THEN "MEDIUM"
    ELSE "LOW"

\* the assignment entity.risk_score = min(1.0, <the score read> + step), with
\* the level and node updates that follow it
add_sar_assign(self, entity_id, risk_level, risk_score_read) ==
    LET score == Min(100, risk_score_read + risk_increase(risk_level))
    IN  [self EXCEPT
            !.entities[entity_id].risk_score = score,
            !.entities[entity_id].risk_level = level_of_score(score),
            !.graph_nodes[entity_id] =
                Put(self.graph_nodes[entity_id], "risk_score", score)]

\* one pass of the body of "for entity_id in sar.entities_involved"
add_sar_update(self, entity_id, risk_level) ==
    IF entity_id \in DOMAIN self.entities
    THEN add_sar_assign(self, entity_id, risk_level,
                        self.entities[entity_id].risk_score)
    ELSE self

RECURSIVE add_sar_loop(_, _, _, _)
add_sar_loop(self, entities_involved, risk_level, i) ==
    IF i > Len(entities_involved) THEN self
    ELSE add_sar_loop(add_sar_update(self, entities_involved[i], risk_level),
                      entities_involved, risk_level, i + 1)

GraphRAGService_add_sar(self, sar) ==
    add_sar_loop([self EXCEPT !.sars = Put(@, sar.sar_id, sar)],
                 sar.entities_involved, sar.risk_level, 1)
\* DiGraph.neighbors(n): the successors of n, in the adjacency's iteration
\* order, which is given by `order`, a listing of the nodes
nx_neighbors(edges, n, order) ==
    SelectSeq(order, LAMBDA m : <<n, m>> \in DOMAIN edges)

\* a traversal that follows outgoing edges only
no_predecessors(edges, n, order) == <<>>

nx_predecessors(edges, n, order) ==
    SelectSeq(order, LAMBDA m : <<m, n>> \in DOMAIN edges)

\* one of the two inner for loops of find_connected_entities over `found`;
\* st holds the locals visited, connected and queue
RECURSIVE bfs_scan(_, _, _)
bfs_scan(found, depth, st) ==
    IF found = <<>> THEN st
    ELSE bfs_scan(Tail(found), depth,
            IF Head(found) \notin st.visited
            THEN [visited |-> st.visited \cup {Head(found)},
                  connected |-> st.connected \cup {Head(found)},
                  queue |-> Append(st.queue, <<Head(found), depth + 1>>)]
            ELSE st)

\* the while loop of find_connected_entities
RECURSIVE bfs_loop(_, _, _, _)
bfs_loop(self, max_depth, order, st) ==
    IF st.queue = <<>> THEN st.connected
    ELSE LET current == Head(st.queue)[1]
             depth == Head(st.queue)[2]
             popped == [st EXCEPT !.queue = Tail(@)]
         IN  IF depth >= max_depth
             THEN bfs_loop(self, max_depth, order, popped)
             ELSE bfs_loop(self, max_depth, order,
                     bfs_scan(nx_predecessors(self.graph_edges, current, order),
                              depth,
                              bfs_scan(nx_neighbors(self.graph_edges, current, order),
                                       depth, popped)))

GraphRAGService_find_connected_entities(self, entity_id, max_depth, order) ==
    IF entity_id \notin DOMAIN self.graph_nodes THEN {}
    ELSE bfs_loop(self, max_depth, order,
                  [visited |-> {entity_id}, connected |-> {},
                   queue |-> << <<entity_id, 0>> >>])

\* the defaults of detect_structuring_pattern and the literal lower end of
\* its amount band
default_time_window_days == 7

default_threshold == 10000

band_floor == 9000

None == [type |-> "None"]

\* detect_structuring_pattern; `at` is the value datetime.now() returns.
\* timedelta.days is the whole number of days, rounded down.
GraphRAGService_detect_structuring_pattern(self, entity_id, time_window_days, threshold, at) ==
    IF entity_id \notin DOMAIN self.graph_nodes THEN None
    ELSE LET entity_transactions ==
                 {t \in DOMAIN self.transactions :
                     \/ self.transactions[t].sender_id = entity_id
                     \/ self.transactions[t].receiver_id = entity_id}
             recent_trans ==
                 {t \in entity_transactions :
                     (at - self.transactions[t].timestamp) \div 24
                         <= time_window_days}
             small_transactions ==
                 {t \in recent_trans :
                     /\ band_floor <= self.transactions[t].amount
                     /\ self.transactions[t].amount < threshold}
             confidence == Min(100, (100 * Cardinality(small_transactions)) \div 10)
         IN  IF Cardinality(small_transactions) >= 3
             THEN [type |-> "Pattern", pattern_type |-> "structuring",
                   entities_involved |-> <<entity_id>>,
                   transactions_involved |-> small_transactions,
                   confidence_score |-> confidence,
                   risk_level |-> IF confidence > 70 THEN "HIGH" ELSE "MEDIUM"]
             ELSE None

\* the nodes of `order` that come after position i and continue path along
\* an edge, as the depth-first search of nx.simple_cycles visits them
RECURSIVE cycles_from(_, _, _)
RECURSIVE cycles_via(_, _, _, _)
cycles_via(edges, order, path, i) ==
    IF i > Len(order) THEN <<>>
    ELSE (IF /\ <<path[Len(path)], order[i]>> \in DOMAIN edges
             /\ \A j \in 1..Len(path) : path[j] # order[i]
             /\ \E j \in 1..(i - 1) : order[j] = path[1]
          THEN cycles_from(edges, order, Append(path, order[i]))
          ELSE <<>>)
         \o cycles_via(edges, order, path, i + 1)

\* the elementary circuits that begin with path; a circuit is reported once,
\* from its first node in `order`
cycles_from(edges, order, path) ==
    (IF <<path[Len(path)], path[1]>> \in DOMAIN edges THEN <<path>> ELSE <<>>)
    \o cycles_via(edges, order, path, 1)

RECURSIVE cycles_starting(_, _, _)
cycles_starting(edges, order, i) ==
    IF i > Len(order) THEN <<>>
    ELSE cycles_from(edges, order, <<order[i]>>)
         \o cycles_starting(edges, order, i + 1)

\* a search that never reports a one-node circuit
cycles_without_self_loops(edges, order) ==
    SelectSeq(cycles_starting(edges, order, 1), LAMBDA c : Len(c) > 1)

\* nx.simple_cycles(G) on a DiGraph: every elementary circuit once, self-loops
\* included, as a list of nodes in the direction of the edges; `order` is the
\* order in which the search takes up the nodes
nx_simple_cycles(edges, order) == cycles_starting(edges, order, 1)

\* the body of the for loop of detect_circular_transactions for one cycle
circular_pattern(self, cycle) ==
    LET cycle_transactions ==
            [i \in 1..Len(cycle) |->
                self.graph_edges[<<cycle[i], cycle[(i % Len(cycle)) + 1]>>]
                    .transaction_id]
        confidence == Min(100, (100 * Len(cycle)) \div 10)
    IN  [type |-> "Pattern", pattern_type |-> "circular_transactions",
         entities_involved |-> cycle,
         transactions_involved |-> cycle_transactions,
         confidence_score |-> confidence,
         risk_level |-> IF confidence > 80 THEN "CRITICAL" ELSE "HIGH"]

RECURSIVE circular_patterns(_, _, _, _)
circular_patterns(self, cycles, min_cycle_length, i) ==
    IF i > Len(cycles) THEN <<>>
    ELSE (IF Len(cycles[i]) >= min_cycle_length
          THEN <<circular_pattern(self, cycles[i])>>
          ELSE <<>>)
         \o circular_patterns(self, cycles, min_cycle_length, i + 1)

GraphRAGService_detect_circular_transactions(self, min_cycle_length, order) ==
    circular_patterns(self, nx_simple_cycles(self.graph_edges, order),
                      min_cycle_length, 1)

\* the default of detect_circular_transactions
default_min_cycle_length == 3

\* the default window of detect_rapid_movement, in hours
default_time_window_hours == 24

\* detect_rapid_movement counting a transaction once for each of its ends
\* that is the entity
detect_rapid_movement_counting_ends(self, entity_id, time_window_hours, at) ==
    IF entity_id \notin DOMAIN self.graph_nodes THEN None
    ELSE LET recent(end(_)) ==
                 {t \in DOMAIN self.transactions :
                     /\ end(self.transactions[t]) = entity_id
                     /\ at - self.transactions[t].timestamp <= time_window_hours}
             sent == recent(LAMBDA trans : trans.sender_id)
             received == recent(LAMBDA trans : trans.receiver_id)
             count == Cardinality(sent) + Cardinality(received)
             confidence == Min(100, (100 * count) \div 15)
         IN  IF count >= 5
             THEN [type |-> "Pattern", pattern_type |-> "rapid_movement",
                   entities_involved |-> <<entity_id>>,
                   transactions_involved |-> sent \cup received,
                   confidence_score |-> confidence,
                   risk_level |-> IF confidence > 60 THEN "HIGH" ELSE "MEDIUM"]
             ELSE None

\* detect_rapid_movement; total_seconds() / 3600 is the exact age in hours
GraphRAGService_detect_rapid_movement(self, entity_id, time_window_hours, at) ==
    IF entity_id \notin DOMAIN self.graph_nodes THEN None
    ELSE LET recent_trans ==
                 {t \in DOMAIN self.transactions :
                     /\ \/ self.transactions[t].sender_id = entity_id
                        \/ self.transactions[t].receiver_id = entity_id
                     /\ at - self.transactions[t].timestamp <= time_window_hours}
             confidence == Min(100, (100 * Cardinality(recent_trans)) \div 15)
         IN  IF Cardinality(recent_trans) >= 5
             THEN [type |-> "Pattern", pattern_type |-> "rapid_movement",
                   entities_involved |-> <<entity_id>>,
                   transactions_involved |-> recent_trans,
                   confidence_score |-> confidence,
                   risk_level |-> IF confidence > 60 THEN "HIGH" ELSE "MEDIUM"]
             ELSE None

\* find_related_sars: the ids of the SARs naming the entity or an entity
\* within two hops of it
GraphRAGService_find_related_sars(self, entity_id, order) ==
    LET connected ==
            GraphRAGService_find_connected_entities(self, entity_id, 2, order)
                \cup {entity_id}
    IN  {sar_id \in DOMAIN self.sars :
            \E i \in 1..Len(self.sars[sar_id].entities_involved) :
                self.sars[sar_id].entities_involved[i] \in connected}

\* compute_entity_risk_score, in hundredths
GraphRAGService_compute_entity_risk_score(self, entity_id, order) ==
    IF entity_id \notin DOMAIN self.entities THEN 0
    ELSE LET connected ==
                 GraphRAGService_find_connected_entities(self, entity_id, 2, order)
             high_risk_connections ==
                 Cardinality({e_id \in connected :
                                 /\ e_id \in DOMAIN self.entities
                                 /\ self.entities[e_id].risk_score > 50})
             related_sars == GraphRAGService_find_related_sars(self, entity_id, order)
         IN  Min(100, self.entities[entity_id].risk_score
                          + Min(30, high_risk_connections * 5)
                          + Min(30, Cardinality(related_sars) * 10))

\* get_entity_graph_data; `order` is also the order in which the set
\* `connected` is iterated
GraphRAGService_get_entity_graph_data(self, entity_id, depth, order) ==
    IF entity_id \notin DOMAIN self.graph_nodes
    THEN [nodes |-> <<>>, edges |-> <<>>]
    ELSE LET connected ==
                 GraphRAGService_find_connected_entities(self, entity_id, depth, order)
                     \cup {entity_id}
             listed == SelectSeq(order, LAMBDA n : n \in connected)
             node(node_id) ==
                 [id |-> node_id,
                  name |-> IF node_id \in DOMAIN self.entities
                           THEN self.entities[node_id].name ELSE node_id,
                  type |-> Get(self.graph_nodes[node_id], "entity_type", "unknown"),
                  risk_score |-> Get(self.graph_nodes[node_id], "risk_score", 0)]
             edge(src, dst) ==
                 [source |-> src, target |-> dst,
                  amount |-> self.graph_edges[<<src, dst>>].amount,
                  transaction_id |-> self.graph_edges[<<src, dst>>].transaction_id]
             pairs == [k \in 1..(Len(listed) * Len(listed)) |->
                          <<listed[((k - 1) \div Len(listed)) + 1],
                            listed[((k - 1) % Len(listed)) + 1]>>]
             linked == SelectSeq(pairs, LAMBDA pr : pr \in DOMAIN self.graph_edges)
         IN  [nodes |-> [k \in 1..Len(listed) |-> node(listed[k])],
              edges |-> [k \in 1..Len(linked) |-> edge(linked[k][1], linked[k][2])]]

---------------------------------------------------------------------------
(* numpy float arithmetic.  A float is [m, e], standing for m * 2^e, with   *)
(* m = 0 or m of exactly SignificandBits bits; every operation returns the  *)
(* exact result rounded to the nearest float, ties to even, as IEEE 754     *)
(* prescribes.  numpy's float64 has 53 significand bits; the model keeps    *)
(* the rounding and narrows the significand.                                *)

RECURSIVE Pow2(_)
Pow2(k) == IF k = 0 THEN 1 ELSE 2 * Pow2(k - 1)

RECURSIVE BitLength(_)
BitLength(n) == IF n = 0 THEN 0 ELSE 1 + BitLength(n \div 2)

fl_zero == [m |-> 0, e |-> 0]

\* the float nearest to n * 2^e, for a natural number n
fl_round(n, e) ==
    IF n = 0 THEN fl_zero
    ELSE LET b == BitLength(n)
         IN  IF b <= SignificandBits
             THEN [m |-> n * Pow2(SignificandBits - b),
                   e |-> e - (SignificandBits - b)]
             ELSE LET k == b - SignificandBits
                      q == n \div Pow2(k)
                      r == n % Pow2(k)
                      up == r > Pow2(k - 1) \/ (r = Pow2(k - 1) /\ q % 2 = 1)
                  IN  IF up /\ q + 1 = Pow2(SignificandBits)
                      THEN [m |-> Pow2(SignificandBits - 1), e |-> e + k + 1]
                      ELSE [m |-> IF up THEN q + 1 ELSE q, e |-> e + k]

fl_mul(a, b) == fl_round(a.m * b.m, a.e + b.e)

fl_add(a, b) ==
    IF a.m = 0 THEN b
    ELSE IF b.m = 0 THEN a
    ELSE LET e == IF a.e <= b.e THEN a.e ELSE b.e
         IN  fl_round(a.m * Pow2(a.e - e) + b.m * Pow2(b.e - e), e)

\* a / b for b # 0; the last bit of the quotient handed to fl_round records
\* whether the division left a remainder
fl_div(a, b) ==
    LET n == a.m * Pow2(SignificandBits + 2)
    IN  fl_round(2 * (n \div b.m) + (IF n % b.m = 0 THEN 0 ELSE 1),
                 a.e - b.e - (SignificandBits + 3))

\* the integer square root of n, searched for between lo and hi
RECURSIVE isqrt(_, _, _)
isqrt(n, lo, hi) ==
    IF lo = hi THEN lo
    ELSE LET mid == (lo + hi + 1) \div 2
         IN  IF mid * mid <= n THEN isqrt(n, mid, hi) ELSE isqrt(n, lo, mid - 1)

fl_sqrt(a) ==
    IF a.m = 0 THEN fl_zero
    ELSE LET s == SignificandBits + 2 + ((a.e + SignificandBits) % 2)
             n == a.m * Pow2(s)
             r == isqrt(n, 0, Pow2(SignificandBits + 2))
         IN  fl_round(2 * r + (IF r * r = n THEN 0 ELSE 1), ((a.e - s) \div 2) - 1)

\* float(n) for a small natural number n
fl_int(n) == fl_round(n, 0)

\* a <= b for floats that are not negative
fl_le(a, b) ==
    \/ a.m = 0
    \/ b.m # 0 /\ (a.e < b.e \/ (a.e = b.e /\ a.m <= b.m))

---------------------------------------------------------------------------
(* app/ai_service.py : AIAnalysisService *)

\* self.keywords, in dict order
keywords ==
    << [pattern_type |-> "structuring",
        words |-> {"multiple", "transactions", "below", "threshold", "avoid"}],
       [pattern_type |-> "money_laundering",
        words |-> {"layering", "placement", "integration", "wash"}],
       [pattern_type |-> "fraud",
        words |-> {"false", "fake", "deception", "misrepresentation"}],
       [pattern_type |-> "terrorist_financing",
        words |-> {"terrorism", "extremist", "funding"}],
       [pattern_type |-> "unusual_transaction",
        words |-> {"unusual", "abnormal", "irregular", "suspicious"}] >>

AIAnalysisService_init == [sar_embeddings |-> EmptyDict]

\* A JSON string is [type |-> "str", words |-> ...]; str.lower() exists only
\* on those, so any other JSON value raises AttributeError here.
is_str(v) == v.type = "str"

\* embedding[idx] = count / len(keywords), a float division
create_simple_embedding(text) ==
    [idx \in 1..Len(keywords) |->
        fl_div(fl_int(Cardinality(keywords[idx].words \cap text.words)),
               fl_int(Cardinality(keywords[idx].words)))]

\* np.dot(vec1, vec2), the products summed from the first component on
RECURSIVE np_dot(_, _, _)
np_dot(vec1, vec2, n) ==
    IF n = 0 THEN fl_zero
    ELSE fl_add(np_dot(vec1, vec2, n - 1), fl_mul(vec1[n], vec2[n]))

\* np.linalg.norm(vec): the square root of vec.dot(vec)
np_linalg_norm(vec) == fl_sqrt(np_dot(vec, vec, Len(vec)))

cosine_similarity(vec1, vec2) ==
    LET dot_product == np_dot(vec1, vec2, Len(vec1))
        norm1 == np_linalg_norm(vec1)
        norm2 == np_linalg_norm(vec2)
    IN  IF norm1 = fl_zero \/ norm2 = fl_zero THEN fl_zero
        ELSE fl_div(dot_product, fl_mul(norm1, norm2))

\* the state change of analyze_sar_narrative: the embedding is cached per id
analyze_sar_narrative(self, sar) ==
    [self EXCEPT !.sar_embeddings =
        Put(@, sar.sar_id, create_simple_embedding(sar.narrative))]

\* the sum of f over the finite set S
RECURSIVE Sum(_, _)
Sum(f, S) ==
    IF S = {} THEN 0
    ELSE LET x == CHOOSE y \in S : TRUE IN f[x] + Sum(f, S \ {x})

\* the "patterns" list of analyze_transaction_pattern for the transactions
\* with the ids in ids; std < avg * 0.1 is compared on the squares, times n^2
analyze_transaction_pattern(transactions, ids) ==
    IF ids = {} THEN <<>>
    ELSE LET n == Cardinality(ids)
             total == Sum([t \in ids |-> transactions[t].amount], ids)
             squares == Sum([t \in ids |-> transactions[t].amount
                                              * transactions[t].amount], ids)
             time_span_hours ==
                 (CHOOSE x \in {transactions[t].timestamp : t \in ids} :
                     \A t \in ids : transactions[t].timestamp <= x)
                 - (CHOOSE x \in {transactions[t].timestamp : t \in ids} :
                     \A t \in ids : transactions[t].timestamp >= x)
             round_numbers ==
                 Cardinality({t \in ids : transactions[t].amount % 1000 = 0})
         IN  (IF total > 0 /\ n * squares - total * total
                                 <= (total * total - 1) \div 100
              THEN <<"uniform_amounts">> ELSE <<>>)
             \o (IF time_span_hours < 24 /\ n > 5
                 THEN <<"rapid_succession">> ELSE <<>>)
             \o (IF 10 * round_numbers > 7 * n
                 THEN <<"round_numbers">> ELSE <<>>)

\* the float a decimal literal stands for: tenths / 10 or hundredths / 100,
\* correctly rounded
fl_tenths(n) == fl_div(fl_int(n), fl_int(10))

fl_hundredths(n) == fl_div(fl_int(n), fl_int(100))

\* min(a, b) for floats that are not negative
fl_min(a, b) == IF fl_le(a, b) THEN a ELSE b

\* the if-chain of compute_risk_score that names the level of a score
score_level(score) ==
    IF fl_le(fl_tenths(8), score) THEN "CRITICAL"
    ELSE IF fl_le(fl_tenths(6), score) THEN "HIGH"
    ELSE IF fl_le(fl_tenths(3), score) THEN "MEDIUM"
    ELSE "LOW"

\* Factor 3 with every boundary counted in the higher step
volume_term_inclusive(transaction_volume) ==
    IF transaction_volume >= 1000000 THEN fl_tenths(3)
    ELSE IF transaction_volume >= 100000 THEN fl_tenths(2)
    ELSE IF transaction_volume >= 10000 THEN fl_tenths(1)
    ELSE fl_zero

\* Factor 3 of compute_risk_score: what the volume adds to the score
volume_term(transaction_volume) ==
    IF transaction_volume > 1000000 THEN fl_tenths(3)
    ELSE IF transaction_volume > 100000 THEN fl_tenths(2)
    ELSE IF transaction_volume > 10000 THEN fl_tenths(1)
    ELSE fl_zero

\* compute_risk_score: the score is a float, summed factor by factor
compute_risk_score(entity_connections, sar_count, transaction_volume, pattern_count) ==
    LET factor1 == fl_add(fl_zero,
                          fl_min(fl_tenths(3), fl_mul(fl_int(sar_count), fl_tenths(1))))
        factor2 == fl_add(factor1,
                          fl_min(fl_tenths(2),
                                 fl_mul(fl_int(entity_connections), fl_hundredths(2))))
        factor3 == fl_add(factor2, volume_term(transaction_volume))
        score == fl_add(factor3,
                        fl_min(fl_tenths(2),
                               fl_mul(fl_int(pattern_count), fl_hundredths(5))))
    IN  [risk_score |-> fl_min(fl_int(1), score), risk_level |-> score_level(score)]

\* the names analyze_transaction_pattern gives its patterns, each as the
\* words between its underscores
pattern_words ==
    [uniform_amounts |-> <<"uniform", "amounts">>,
     rapid_succession |-> <<"rapid", "succession">>,
     round_numbers |-> <<"round", "numbers">>]

\* `needle in str(patterns)`, needle given as its words: some name of the
\* list has the needle's words in a row
in_str(needle, patterns) ==
    \E i \in 1..Len(patterns) :
        LET name == pattern_words[patterns[i]]
        IN  \E k \in 0..(Len(name) - Len(needle)) :
                SubSeq(name, k + 1, k + Len(needle)) = needle

\* _generate_recommendations
generate_recommendations(risk_score, patterns) ==
    (IF fl_le(fl_tenths(8), risk_score)
     THEN <<"CRITICAL: Immediate investigation required. Consider filing SAR if not already done.",
            "Enhanced due diligence recommended", "Review all recent transactions">>
     ELSE IF fl_le(fl_tenths(6), risk_score)
     THEN <<"Enhanced monitoring recommended", "Review transaction patterns">>
     ELSE IF fl_le(fl_tenths(3), risk_score)
     THEN <<"Continue standard monitoring", "Document findings for future reference">>
     ELSE <<>>)
    \o (IF in_str(<<"structuring">>, patterns)
        THEN <<"Investigate for potential structuring activity">> ELSE <<>>)
    \o (IF in_str(<<"circular", "transactions">>, patterns)
        THEN <<"Analyze circular transaction pattern for money laundering indicators">>
        ELSE <<>>)
    \o (IF in_str(<<"rapid", "movement">>, patterns)
        THEN <<"Review rapid fund movement for layering activity">> ELSE <<>>)

\* the embeddings cached once find_similar_sars has looked at every SAR
embeddings_of_all(self, sars) ==
    [sar_id \in DOMAIN self.sar_embeddings \cup DOMAIN sars |->
        IF sar_id \in DOMAIN self.sar_embeddings
        THEN self.sar_embeddings[sar_id]
        ELSE create_simple_embedding(sars[sar_id].narrative)]

\* a < b for floats that are not negative
fl_lt(a, b) == ~fl_le(b, a)

\* x put into a list sorted by similarity, largest first, before the equal
\* elements
RECURSIVE insert_before_equal(_, _)
insert_before_equal(sorted, x) ==
    IF sorted = <<>> THEN <<x>>
    ELSE IF fl_le(sorted[1].similarity, x.similarity) THEN <<x>> \o sorted
    ELSE <<sorted[1]>> \o insert_before_equal(Tail(sorted), x)

\* x put into a list sorted by similarity, largest first, behind the equal
\* elements
RECURSIVE insert_behind_equal(_, _)
insert_behind_equal(sorted, x) ==
    IF sorted = <<>> THEN <<x>>
    ELSE IF fl_lt(sorted[1].similarity, x.similarity) THEN <<x>> \o sorted
    ELSE <<sorted[1]>> \o insert_behind_equal(Tail(sorted), x)

\* a descending sort that reverses the elements of equal similarity
RECURSIVE sort_reversing_ties(_)
sort_reversing_ties(similar_sars) ==
    IF similar_sars = <<>> THEN <<>>
    ELSE insert_before_equal(
             sort_reversing_ties(SubSeq(similar_sars, 1, Len(similar_sars) - 1)),
             similar_sars[Len(similar_sars)])

\* similar_sars.sort(key=lambda x: x[1], reverse=True): list.sort is stable,
\* also with reverse=True
RECURSIVE list_sort_reverse(_)
list_sort_reverse(similar_sars) ==
    IF similar_sars = <<>> THEN <<>>
    ELSE insert_behind_equal(
             list_sort_reverse(SubSeq(similar_sars, 1, Len(similar_sars) - 1)),
             similar_sars[Len(similar_sars)])

\* find_similar_sars: the other SARs of all_sars at least `threshold` similar,
\* each with its similarity, sorted; all_sars is the list of the SAR ids
find_similar_sars_result(embeddings, sar_id, all_sars, threshold) ==
    LET others ==
            SelectSeq(all_sars,
                      LAMBDA other :
                          /\ other # sar_id
                          /\ fl_le(threshold,
                                   cosine_similarity(embeddings[sar_id],
                                                     embeddings[other])))
    IN  list_sort_reverse(
            [i \in 1..Len(others) |->
                [sar_id |-> others[i],
                 similarity |-> cosine_similarity(embeddings[sar_id],
                                                  embeddings[others[i]])]])

\* the SARs find_similar_sars looks at, in turn: the query, then the others
visited(sar_id, all_sars) ==
    <<sar_id>> \o SelectSeq(all_sars, LAMBDA other : other # sar_id)

\* the position in `visit` of the first SAR whose analysis raises, 0 if none
first_failure(self, sars, visit) ==
    LET failing == {i \in 1..Len(visit) :
                       /\ visit[i] \notin DOMAIN self.sar_embeddings
                       /\ ~is_str(sars[visit[i]].narrative)}
    IN  IF failing = {} THEN 0
        ELSE CHOOSE i \in failing : \A j \in failing : i <= j

---------------------------------------------------------------------------
(* app/routes.py : request parsing *)

Ok(v) == [ok |-> TRUE, value |-> v]

\* an exception raised while the handler runs: its class and str(e)
Raise(cls, arg) == [ok |-> FALSE, exception |-> cls, arg |-> arg]

\* the first key of `required`, in evaluation order, that data lacks
RECURSIVE first_missing(_, _, _)
first_missing(data, required, i) ==
    IF i > Len(required) THEN "<none>"
    ELSE IF required[i] \notin DOMAIN data THEN required[i]
    ELSE first_missing(data, required, i + 1)

\* Entity(entity_id=data["entity_id"], ..., risk_level=RiskLevel[...upper()])
parse_entity(data) ==
    LET missing == first_missing(data, <<"entity_id", "name", "entity_type">>, 1)
        level == upper(Get(data, "risk_level", "LOW"))
    IN  IF missing # "<none>" THEN Raise("KeyError", missing)
        ELSE IF level \notin RiskLevel THEN Raise("KeyError", level)
        ELSE Ok(Entity(data.entity_id, data.name, data.entity_type,
                       Get(data, "risk_score", 0), level))

\* Transaction(transaction_id=data["transaction_id"], ...)
parse_transaction(data) ==
    LET missing == first_missing(data,
            <<"transaction_id", "timestamp", "amount", "sender_id",
              "receiver_id", "transaction_type">>, 1)
    IN  IF missing # "<none>" THEN Raise("KeyError", missing)
        ELSE Ok(Transaction(data.transaction_id, data.timestamp, data.amount,
                            data.sender_id, data.receiver_id,
                            data.transaction_type))

\* SAR(sar_id=data["sar_id"], ..., risk_level=RiskLevel[...upper()], ...)
parse_sar(data) ==
    LET m1 == first_missing(data, <<"sar_id", "filing_date", "activity_type">>, 1)
        m2 == first_missing(data,
                  <<"entities_involved", "transactions_involved", "narrative",
                    "risk_level">>, 1)
        m3 == first_missing(data,
                  <<"amount_involved", "time_period_start", "time_period_end">>, 1)
    IN  IF m1 # "<none>" THEN Raise("KeyError", m1)
        ELSE IF upper(data.activity_type) \notin ActivityType
             THEN Raise("KeyError", upper(data.activity_type))
        ELSE IF m2 # "<none>" THEN Raise("KeyError", m2)
        ELSE IF upper(data.risk_level) \notin RiskLevel
             THEN Raise("KeyError", upper(data.risk_level))
        ELSE IF m3 # "<none>" THEN Raise("KeyError", m3)
        ELSE Ok(SAR(data.sar_id, upper(data.activity_type),
                    data.entities_involved, data.narrative,
                    upper(data.risk_level)))

\* the two except clauses shared by the three POST handlers
error_response(r) ==
    IF r.exception = "KeyError"
    THEN [code |-> 400, status |-> "error",
          message |-> <<"Missing field: ", r.arg>>]
    ELSE [code |-> 500, status |-> "error", message |-> <<r.exception, r.arg>>]

success_response(message, id) ==
    [code |-> 201, status |-> "success", message |-> <<message, id>>]
---------------------------------------------------------------------------
(* app/routes.py : the POST handlers *)

\* POST /api/entities
add_entity(data) ==
    /\ LET r == parse_entity(data)
       IN  IF r.ok
           THEN /\ graph_service' = GraphRAGService_add_entity(graph_service, r.value)
                /\ response' = success_response("Entity added successfully",
                                                r.value.entity_id)
           ELSE /\ response' = error_response(r)
                /\ UNCHANGED graph_service
    /\ request' = [op |-> "add_entity", data |-> data]
    /\ before' = graph_service
    /\ UNCHANGED <<threads, serial>>
    /\ posts' = posts + 1
    /\ UNCHANGED <<ai_service, now>>

\* POST /api/transactions
add_transaction(data) ==
    /\ LET r == parse_transaction(data)
       IN  IF r.ok
           THEN /\ graph_service' =
                       GraphRAGService_add_transaction(graph_service, r.value)
                /\ response' = success_response("Transaction added successfully",
                                                r.value.transaction_id)
           ELSE /\ response' = error_response(r)
                /\ UNCHANGED graph_service
    /\ request' = [op |-> "add_transaction", data |-> data]
    /\ before' = graph_service
    /\ UNCHANGED <<threads, serial>>
    /\ posts' = posts + 1
    /\ UNCHANGED <<ai_service, now>>

\* POST /api/sars: the SAR is stored and propagated first, the narrative is
\* analysed afterwards; an exception in the analysis is answered with 500
add_sar(data) ==
    /\ LET r == parse_sar(data)
       IN  IF ~r.ok
           THEN /\ response' = error_response(r)
                /\ UNCHANGED <<graph_service, ai_service>>
           ELSE /\ graph_service' = GraphRAGService_add_sar(graph_service, r.value)
                /\ IF is_str(r.value.narrative)
                   THEN /\ ai_service' = analyze_sar_narrative(ai_service, r.value)
                        /\ response' = success_response("SAR added successfully",
                                                        r.value.sar_id)
                   ELSE /\ response' = error_response(
                               Raise("AttributeError", "lower"))
                        /\ UNCHANGED ai_service
    /\ request' = [op |-> "add_sar", data |-> data]
    /\ before' = graph_service
    /\ UNCHANGED <<threads, serial>>
    /\ posts' = posts + 1
    /\ UNCHANGED now

---------------------------------------------------------------------------
(* app/routes.py : the GET handlers *)

\* the orders in which an adjacency over the nodes S can be iterated
Orders(S) ==
    {f \in [1..Cardinality(S) -> S] : \A i, j \in DOMAIN f : f[i] = f[j] => i = j}

\* what detect_patterns reports of a pattern
pattern_entry(pattern) ==
    [type |-> pattern.pattern_type, confidence |-> pattern.confidence_score,
     risk_level |-> pattern.risk_level]

\* GET /api/patterns/detect/<entity_id>
detect_patterns(entity_id) ==
    /\ \E order \in Orders(DOMAIN graph_service.graph_nodes) :
          LET structuring_pattern ==
                  GraphRAGService_detect_structuring_pattern(graph_service,
                      entity_id, default_time_window_days, default_threshold, now)
              rapid_pattern ==
                  GraphRAGService_detect_rapid_movement(graph_service, entity_id,
                      default_time_window_hours, now)
              circular ==
                  SelectSeq(GraphRAGService_detect_circular_transactions(
                                graph_service, default_min_cycle_length, order),
                            LAMBDA pattern :
                                \E i \in 1..Len(pattern.entities_involved) :
                                    pattern.entities_involved[i] = entity_id)
              patterns ==
                  (IF structuring_pattern # None
                   THEN <<pattern_entry(structuring_pattern)>> ELSE <<>>)
                  \o (IF rapid_pattern # None
                      THEN <<pattern_entry(rapid_pattern)>> ELSE <<>>)
                  \o [i \in 1..Len(circular) |-> pattern_entry(circular[i])]
          IN  response' = [code |-> 200, status |-> "success",
                           entity_id |-> entity_id,
                           patterns_detected |-> Len(patterns),
                           patterns |-> patterns]
    /\ request' = [op |-> "detect_patterns", entity_id |-> entity_id]
    /\ before' = graph_service
    /\ UNCHANGED <<threads, serial>>
    /\ UNCHANGED <<graph_service, ai_service, now, posts>>

\* what get_risk_analysis computes from the store as it is in `self`
risk_analysis(self, entity_id, order) ==
    LET related_sars == GraphRAGService_find_related_sars(self, entity_id, order)
        connected_entities ==
            GraphRAGService_find_connected_entities(self, entity_id, 2, order)
        entity_transactions ==
            {t \in DOMAIN self.transactions :
                \/ self.transactions[t].sender_id = entity_id
                \/ self.transactions[t].receiver_id = entity_id}
        patterns == analyze_transaction_pattern(self.transactions, entity_transactions)
        volume == Sum([t \in entity_transactions |-> self.transactions[t].amount],
                      entity_transactions)
        overall == compute_risk_score(Cardinality(connected_entities),
                                      Cardinality(related_sars), volume,
                                      Len(patterns))
    IN  [entity_id |-> entity_id, risk_score |-> overall.risk_score,
         risk_level |-> overall.risk_level, related_sars |-> related_sars,
         detected_patterns |-> patterns,
         findings |-> [connected |-> Cardinality(connected_entities),
                       sars |-> Cardinality(related_sars),
                       volume |-> volume],
         recommendations |-> generate_recommendations(overall.risk_score, patterns)]

\* GET /api/risk-analysis/<entity_id>
get_risk_analysis(entity_id) ==
    /\ \E order \in Orders(DOMAIN graph_service.graph_nodes) :
          response' = [code |-> 200, status |-> "success",
                       report |-> risk_analysis(graph_service, entity_id, order)]
    /\ request' = [op |-> "get_risk_analysis", entity_id |-> entity_id]
    /\ before' = graph_service
    /\ UNCHANGED <<threads, serial>>
    /\ UNCHANGED <<graph_service, ai_service, now, posts>>

\* GET /api/graph/<entity_id>?depth=..., args being the query string
get_entity_graph(entity_id, args) ==
    /\ \E order \in Orders(DOMAIN graph_service.graph_nodes) :
          response' = [code |-> 200, status |-> "success", entity_id |-> entity_id,
                       graph |-> GraphRAGService_get_entity_graph_data(
                                     graph_service, entity_id,
                                     Get(args, "depth", 2), order)]
    /\ request' = [op |-> "get_entity_graph", entity_id |-> entity_id,
                   depth |-> Get(args, "depth", 2)]
    /\ before' = graph_service
    /\ UNCHANGED <<threads, serial>>
    /\ UNCHANGED <<graph_service, ai_service, now, posts>>

\* GET /api/sars/similar/<sar_id>?threshold=...; all_sars is
\* list(graph_service.sars.values()), the SARs in the order of their first
\* filing.  A stored SAR that has no cached
\* embedding is analysed on the way, which raises if its narrative is not a
\* string; the embeddings made before that stay cached.  The answer slices
\* the narrative of every SAR listed, which raises if one is not a string.
find_similar_sars_listed(sar_id, args, all_sars) ==
    /\ LET threshold == Get(args, "threshold", fl_div(fl_int(1), fl_int(2)))
       IN  /\ IF sar_id \notin DOMAIN graph_service.sars
              THEN /\ response' = [code |-> 404, status |-> "error",
                                   message |-> "SAR not found"]
                   /\ UNCHANGED ai_service
              ELSE LET visit == visited(sar_id, all_sars)
                       failure == first_failure(ai_service, graph_service.sars,
                                                visit)
                   IN  IF failure # 0
                       THEN /\ response' =
                                  error_response(Raise("AttributeError", "lower"))
                            /\ ai_service' =
                                  [ai_service EXCEPT !.sar_embeddings =
                                      embeddings_of_all(ai_service,
                                          [o \in {visit[i] : i \in 1..(failure - 1)}
                                              |-> graph_service.sars[o]])]
                       ELSE LET embeddings ==
                                    embeddings_of_all(ai_service, graph_service.sars)
                                similar_sars ==
                                    find_similar_sars_result(embeddings, sar_id,
                                                             all_sars, threshold)
                            IN  /\ ai_service' = [ai_service EXCEPT
                                                     !.sar_embeddings = embeddings]
                                /\ response' =
                                      IF \E i \in 1..Len(similar_sars) :
                                            ~is_str(graph_service.sars[
                                                similar_sars[i].sar_id].narrative)
                                      THEN error_response(
                                               Raise("TypeError", "subscriptable"))
                                      ELSE [code |-> 200, status |-> "success",
                                            sar_id |-> sar_id,
                                            similar_count |-> Len(similar_sars),
                                            similar_sars |-> similar_sars]
           /\ request' = [op |-> "find_similar_sars", sar_id |-> sar_id,
                          threshold |-> threshold, all_sars |-> all_sars]
    /\ before' = graph_service
    /\ UNCHANGED <<threads, serial>>
    /\ UNCHANGED <<graph_service, now, posts>>

\* the request with the SAR dict in any order
find_similar_sars(sar_id, args) ==
    \E all_sars \in Orders(DOMAIN graph_service.sars) :
        find_similar_sars_listed(sar_id, args, all_sars)

\* GET /api/stats
get_system_stats ==
    /\ response' =
          [code |-> 200, status |-> "success",
           stats |->
             [total_entities |-> Cardinality(DOMAIN graph_service.entities),
              total_transactions |-> Cardinality(DOMAIN graph_service.transactions),
              total_sars |-> Cardinality(DOMAIN graph_service.sars),
              graph_nodes |-> Cardinality(DOMAIN graph_service.graph_nodes),
              graph_edges |-> Cardinality(DOMAIN graph_service.graph_edges),
              high_risk_entities |->
                  Cardinality({e \in DOMAIN graph_service.entities :
                      graph_service.entities[e].risk_level \in {"HIGH", "CRITICAL"}})]]
    /\ request' = [op |-> "get_system_stats"]
    /\ before' = graph_service
    /\ UNCHANGED <<threads, serial>>
    /\ UNCHANGED <<graph_service, ai_service, now, posts>>

---------------------------------------------------------------------------
(* app/__init__.py : the application object that the tests import *)

\* the rules that app/routes.py attaches to its blueprint
suspicious_activity_bp ==
    {<<"POST", "/api/entities">>, <<"POST", "/api/transactions">>,
     <<"POST", "/api/sars">>, <<"GET", "/api/patterns/detect/<entity_id>">>,
     <<"GET", "/api/risk-analysis/<entity_id>">>, <<"GET", "/api/graph/<entity_id>">>,
     <<"GET", "/api/sars/similar/<sar_id>">>, <<"GET", "/api/stats">>}

\* the rules app = Flask(__name__) gets from its own @app.route decorators
app_routes == {<<"GET", "/health">>, <<"GET", "/api">>}

\* the blueprints registered on app: the module never calls
\* app.register_blueprint
app_blueprints == {}

app_url_map == app_routes \cup UNION app_blueprints

\* app handling a request: the view of the matching rule runs; a path known
\* under another method only is answered 405, an unknown path 404
app_dispatch(method, rule, data, view) ==
    IF <<method, rule>> \in app_url_map THEN view
    ELSE /\ response' =
              IF \E other \in app_url_map : other[2] = rule
              THEN [code |-> 405, status |-> "method not allowed"]
              ELSE [code |-> 404, status |-> "not found"]
         /\ request' = [op |-> "no_view", method |-> method, rule |-> rule,
                        data |-> data]
         /\ before' = graph_service
         /\ UNCHANGED <<threads, serial>>
         /\ posts' = IF method = "POST" THEN posts + 1 ELSE posts
         /\ UNCHANGED <<graph_service, ai_service, now>>

\* GET /health and GET /api
app_view(rule) ==
    /\ response' = [code |-> 200,
                    status |-> IF rule = "/health" THEN "healthy" ELSE "hello"]
    /\ request' = [op |-> "app_view", method |-> "GET", rule |-> rule]
    /\ before' = graph_service
    /\ UNCHANGED <<threads, serial>>
    /\ UNCHANGED <<graph_service, ai_service, now, posts>>

---------------------------------------------------------------------------
(* The handlers on worker threads.  The module-level graph_service and      *)
(* ai_service are shared by every request and no handler takes a lock, so   *)
(* under a threaded server the interpreter may switch threads between any   *)
(* two steps of a handler.  A handler is cut where it reads or iterates     *)
(* shared state that it uses later.                                         *)

Threads == {"w1", "w2"}

idle == [pc |-> "idle", op |-> "none"]

answered(op, response_) == [pc |-> "idle", op |-> op, response |-> response_]

Idle(t) == threads[t].pc = "idle"

\* the store states a risk analysis in flight has lived through
seen(th, self) ==
    IF th.op = "get_risk_analysis" /\ th.pc # "idle"
    THEN [th EXCEPT !.stores = @ \cup {self}]
    ELSE th

\* thread t moves to `next`; every analysis in flight lives through `self`
switch(t, next, self) ==
    [u \in Threads |-> IF u = t THEN next ELSE seen(threads[u], self)]

\* add_entity and add_transaction have no step that depends on an earlier
\* read of shared state: each runs as one step.  Entities are registered
\* while no other request is in flight, so that `serial` does not depend on
\* where in its run a request is taken to happen.
thread_add_entity(t, data) ==
    LET r == parse_entity(data)
    IN  /\ \A u \in Threads : Idle(u)
        /\ r.ok
        /\ graph_service' = GraphRAGService_add_entity(graph_service, r.value)
        /\ serial' = GraphRAGService_add_entity(serial, r.value)
        /\ threads' = switch(t, answered("add_entity",
                                  success_response("Entity added successfully",
                                                   r.value.entity_id)),
                              graph_service')
        /\ posts' = posts + 1
        /\ UNCHANGED <<ai_service, now, request, response, before>>

thread_add_transaction(t, data) ==
    LET r == parse_transaction(data)
    IN  /\ Idle(t)
        /\ r.ok
        /\ graph_service' = GraphRAGService_add_transaction(graph_service, r.value)
        /\ serial' = GraphRAGService_add_transaction(serial, r.value)
        /\ threads' = switch(t, answered("add_transaction",
                                  success_response("Transaction added successfully",
                                                   r.value.transaction_id)),
                              graph_service')
        /\ posts' = posts + 1
        /\ UNCHANGED <<ai_service, now, request, response, before>>

\* add_sar up to the loop: the SAR is built and stored
thread_add_sar(t, data) ==
    LET r == parse_sar(data)
    IN  /\ Idle(t)
        /\ r.ok
        /\ graph_service' = [graph_service EXCEPT
                                !.sars = Put(@, r.value.sar_id, r.value)]
        /\ serial' = GraphRAGService_add_sar(serial, r.value)
        /\ threads' = switch(t, [pc |-> "for", op |-> "add_sar", sar |-> r.value,
                                  i |-> 1],
                              graph_service')
        /\ posts' = posts + 1
        /\ UNCHANGED <<ai_service, now, request, response, before>>

\* the loop head and the read of entity.risk_score on the right-hand side
thread_add_sar_read(t) ==
    /\ threads[t].pc = "for"
    /\ LET sar == threads[t].sar
           i == threads[t].i
       IN  threads' = [threads EXCEPT ![t] =
               IF i > Len(sar.entities_involved)
               THEN [@ EXCEPT !.pc = "analyze"]
               ELSE IF sar.entities_involved[i] \in DOMAIN graph_service.entities
               THEN [pc |-> "assign", op |-> "add_sar", sar |-> sar, i |-> i,
                     risk_score |->
                         graph_service.entities[sar.entities_involved[i]].risk_score]
               ELSE [@ EXCEPT !.i = i + 1]]
    /\ UNCHANGED <<graph_service, ai_service, now, request, response, before, posts,
                   serial>>

\* the assignment to entity.risk_score and the rest of the loop body
thread_add_sar_assign(t) ==
    /\ threads[t].pc = "assign"
    /\ graph_service' =
          add_sar_assign(graph_service,
                         threads[t].sar.entities_involved[threads[t].i],
                         threads[t].sar.risk_level, threads[t].risk_score)
    /\ threads' = switch(t, [pc |-> "for", op |-> "add_sar", sar |-> threads[t].sar,
                              i |-> threads[t].i + 1],
                          graph_service')
    /\ UNCHANGED <<ai_service, now, request, response, before, posts, serial>>

\* back in the handler: the narrative is analysed and the request answered
thread_add_sar_analyze(t) ==
    /\ threads[t].pc = "analyze"
    /\ ai_service' = analyze_sar_narrative(ai_service, threads[t].sar)
    /\ threads' = [threads EXCEPT ![t] =
           answered("add_sar", success_response("SAR added successfully",
                                                threads[t].sar.sar_id))]
    /\ UNCHANGED <<graph_service, now, request, response, before, posts, serial>>

node_order(self) == CHOOSE order \in Orders(DOMAIN self.graph_nodes) : TRUE

\* get_risk_analysis enters find_related_sars: the connected set is computed
\* and the iteration over self.sars.items() begins
thread_risk_analysis(t, entity_id) ==
    /\ Idle(t)
    /\ threads' = [threads EXCEPT ![t] =
           [pc |-> "sars", op |-> "get_risk_analysis", entity_id |-> entity_id,
            connected |->
                GraphRAGService_find_connected_entities(
                    graph_service, entity_id, 2, node_order(graph_service))
                \cup {entity_id},
            keys |-> DOMAIN graph_service.sars,
            stores |-> {graph_service}]]
    /\ UNCHANGED <<graph_service, ai_service, now, request, response, before, posts,
                   serial>>

\* next() on the iterator of a dict that has gained a key since the iterator
\* was made raises RuntimeError; a key that is put again leaves the size
changed_size(keys, d) == DOMAIN d # keys

runtime_error ==
    error_response(Raise("RuntimeError", "dictionary changed size during iteration"))

\* the iteration over self.sars ends and find_related_sars returns
thread_risk_analysis_sars(t) ==
    /\ threads[t].pc = "sars"
    /\ threads' = [threads EXCEPT ![t] =
           IF changed_size(threads[t].keys, graph_service.sars)
           THEN answered("get_risk_analysis", runtime_error)
                    @@ [stores |-> threads[t].stores]
           ELSE [pc |-> "connected", op |-> "get_risk_analysis",
                 entity_id |-> threads[t].entity_id,
                 related_sars |->
                     {sar_id \in DOMAIN graph_service.sars :
                         \E i \in 1..Len(graph_service.sars[sar_id].entities_involved) :
                             graph_service.sars[sar_id].entities_involved[i]
                                 \in threads[t].connected},
                 stores |-> threads[t].stores]]
    /\ UNCHANGED <<graph_service, ai_service, now, request, response, before, posts,
                   serial>>

\* the handler computes the connected entities and begins to iterate
\* self.transactions.items()
thread_risk_analysis_connected(t) ==
    /\ threads[t].pc = "connected"
    /\ threads' = [threads EXCEPT ![t] =
           [pc |-> "transactions", op |-> "get_risk_analysis",
            entity_id |-> threads[t].entity_id,
            related_sars |-> threads[t].related_sars,
            connected_entities |->
                GraphRAGService_find_connected_entities(
                    graph_service, threads[t].entity_id, 2,
                    node_order(graph_service)),
            keys |-> DOMAIN graph_service.transactions,
            stores |-> threads[t].stores]]
    /\ UNCHANGED <<graph_service, ai_service, now, request, response, before, posts,
                   serial>>

\* the iteration over self.transactions ends and the report is put together
thread_risk_analysis_report(t) ==
    /\ threads[t].pc = "transactions"
    /\ threads' = [threads EXCEPT ![t] =
           IF changed_size(threads[t].keys, graph_service.transactions)
           THEN answered("get_risk_analysis", runtime_error)
                    @@ [stores |-> threads[t].stores]
           ELSE LET entity_transactions ==
                        {x \in DOMAIN graph_service.transactions :
                            \/ graph_service.transactions[x].sender_id
                                   = threads[t].entity_id
                            \/ graph_service.transactions[x].receiver_id
                                   = threads[t].entity_id}
                    volume == Sum([x \in entity_transactions |->
                                      graph_service.transactions[x].amount],
                                  entity_transactions)
                    patterns == analyze_transaction_pattern(
                                    graph_service.transactions, entity_transactions)
                    overall == compute_risk_score(
                                   Cardinality(threads[t].connected_entities),
                                   Cardinality(threads[t].related_sars), volume,
                                   Len(patterns))
                IN  answered("get_risk_analysis",
                        [code |-> 200, status |-> "success",
                         report |->
                            [entity_id |-> threads[t].entity_id,
                             risk_score |-> overall.risk_score,
                             risk_level |-> overall.risk_level,
                             related_sars |-> threads[t].related_sars,
                             detected_patterns |-> patterns,
                             findings |->
                                [connected |->
                                     Cardinality(threads[t].connected_entities),
                                 sars |-> Cardinality(threads[t].related_sars),
                                 volume |-> volume],
                             recommendations |->
                                generate_recommendations(overall.risk_score,
                                                         patterns)]])
                    @@ [stores |-> threads[t].stores]]
    /\ UNCHANGED <<graph_service, ai_service, now, request, response, before, posts,
                   serial>>

---------------------------------------------------------------------------
(* Direct calls of the service's queries, and the passing of time *)

returned(result) == [code |-> 0, status |-> "returned", result |-> result]

find_connected_entities(entity_id, max_depth) ==
    /\ \E order \in Orders(DOMAIN graph_service.graph_nodes) :
          response' = returned(GraphRAGService_find_connected_entities(
                                   graph_service, entity_id, max_depth, order))
    /\ request' = [op |-> "find_connected_entities", entity_id |-> entity_id,
                   max_depth |-> max_depth]
    /\ before' = graph_service
    /\ UNCHANGED <<threads, serial>>
    /\ UNCHANGED <<graph_service, ai_service, now, posts>>

detect_structuring_pattern(entity_id) ==
    /\ response' = returned(GraphRAGService_detect_structuring_pattern(
                       graph_service, entity_id, default_time_window_days,
                       default_threshold, now))
    /\ request' = [op |-> "detect_structuring_pattern", entity_id |-> entity_id,
                   at |-> now]
    /\ before' = graph_service
    /\ UNCHANGED <<threads, serial>>
    /\ UNCHANGED <<graph_service, ai_service, now, posts>>

\* detect_structuring_pattern called with a window and a threshold
detect_structuring_pattern_with(entity_id, time_window_days, threshold) ==
    /\ response' = returned(GraphRAGService_detect_structuring_pattern(
                       graph_service, entity_id, time_window_days, threshold, now))
    /\ request' = [op |-> "detect_structuring_pattern_with",
                   entity_id |-> entity_id, time_window_days |-> time_window_days,
                   threshold |-> threshold, at |-> now]
    /\ before' = graph_service
    /\ UNCHANGED <<threads, serial>>
    /\ UNCHANGED <<graph_service, ai_service, now, posts>>

detect_rapid_movement(entity_id, time_window_hours) ==
    /\ response' = returned(GraphRAGService_detect_rapid_movement(
                       graph_service, entity_id, time_window_hours, now))
    /\ request' = [op |-> "detect_rapid_movement", entity_id |-> entity_id,
                   time_window_hours |-> time_window_hours, at |-> now]
    /\ before' = graph_service
    /\ UNCHANGED <<threads, serial>>
    /\ UNCHANGED <<graph_service, ai_service, now, posts>>

\* ai_service.compute_risk_score called with the four counts
call_compute_risk_score(entity_connections, sar_count, transaction_volume, pattern_count) ==
    /\ response' = returned(compute_risk_score(entity_connections, sar_count,
                                               transaction_volume, pattern_count))
    /\ request' = [op |-> "compute_risk_score",
                   entity_connections |-> entity_connections,
                   sar_count |-> sar_count,
                   transaction_volume |-> transaction_volume,
                   pattern_count |-> pattern_count]
    /\ before' = graph_service
    /\ UNCHANGED <<threads, serial>>
    /\ UNCHANGED <<graph_service, ai_service, now, posts>>

detect_circular_transactions(min_cycle_length, order) ==
    /\ response' = returned(GraphRAGService_detect_circular_transactions(
                       graph_service, min_cycle_length, order))
    /\ request' = [op |-> "detect_circular_transactions",
                   min_cycle_length |-> min_cycle_length]
    /\ before' = graph_service
    /\ UNCHANGED <<threads, serial>>
    /\ UNCHANGED <<graph_service, ai_service, now, posts>>

\* _cosine_similarity applied to the cached embeddings of two filed SARs
cosine_similarity_of(sar_a, sar_b) ==
    /\ response' = returned(cosine_similarity(ai_service.sar_embeddings[sar_a],
                                              ai_service.sar_embeddings[sar_b]))
    /\ request' = [op |-> "cosine_similarity", a |-> sar_a, b |-> sar_b]
    /\ before' = graph_service
    /\ UNCHANGED <<threads, serial>>
    /\ UNCHANGED <<graph_service, ai_service, now, posts>>

compute_entity_risk_score(entity_id) ==
    /\ \E order \in Orders(DOMAIN graph_service.graph_nodes) :
          response' = returned(GraphRAGService_compute_entity_risk_score(
                                   graph_service, entity_id, order))
    /\ request' = [op |-> "compute_entity_risk_score", entity_id |-> entity_id]
    /\ before' = graph_service
    /\ UNCHANGED <<threads, serial>>
    /\ UNCHANGED <<graph_service, ai_service, now, posts>>

\* an hour passes
Tick ==
    /\ now < MaxTicks
    /\ now' = now + 1
    /\ UNCHANGED <<graph_service, ai_service, request, response, before, posts,
                   threads, serial>>

---------------------------------------------------------------------------
(* Request bodies *)

EntityIds == {"E1", "E2"}

EntityPayloads ==
    {[entity_id |-> e, name |-> n, entity_type |-> "person"] :
        e \in EntityIds, n \in {"Alice", "Bob"}}
    \cup {[entity_id |-> e, name |-> "Alice", entity_type |-> "person",
           risk_score |-> 90, risk_level |-> "critical"] : e \in EntityIds}
    \cup {[entity_id |-> "E1", name |-> "Alice", entity_type |-> "person",
           risk_score |-> 90],
          [entity_id |-> "E1", name |-> "Alice", entity_type |-> "person",
           risk_score |-> 150, risk_level |-> "critical"],
          [entity_id |-> "E1"],
          [entity_id |-> "E1", name |-> "Alice", entity_type |-> "person",
           risk_level |-> "bogus"]}

TransactionPayloads ==
    {[transaction_id |-> t, timestamp |-> 0, amount |-> a, sender_id |-> p[1],
      receiver_id |-> p[2], transaction_type |-> "wire_transfer"] :
        t \in {"T1", "T2"}, a \in {5000, 9500},
        p \in {<<"E1", "E2">>, <<"E2", "E1">>, <<"E1", "E1">>}}
    \cup {[transaction_id |-> "T1", timestamp |-> 0, sender_id |-> "E1",
           receiver_id |-> "E2", transaction_type |-> "wire_transfer"]}

Narrative == [type |-> "str", words |-> {"multiple", "threshold", "layering"}]

SarBody(sar_id, activity_type, entities_involved, narrative, risk_level) ==
    [sar_id |-> sar_id, filing_date |-> 0, activity_type |-> activity_type,
     entities_involved |-> entities_involved, transactions_involved |-> <<>>,
     narrative |-> narrative, risk_level |-> risk_level,
     amount_involved |-> 50000, time_period_start |-> 0, time_period_end |-> 0]

SarPayloads ==
    {SarBody(s, "structuring", es, Narrative, l) :
        s \in {"S1", "S2"},
        es \in {<<"E1">>, <<"E1", "E1">>, <<"E1", "E2">>, <<"E9">>},
        l \in {"low", "medium", "high", "critical"}}
    \cup {SarBody("S1", "structuring", <<"E1">>, [type |-> "int"], "high"),
          SarBody("S1", "structuring", <<"E1">>, Narrative, "bogus"),
          SarBody("S1", "bogus", <<"E1">>, Narrative, "high"),
          [sar_id |-> "S1", filing_date |-> 0, activity_type |-> "structuring",
           entities_involved |-> <<"E1">>]}

---------------------------------------------------------------------------
(* The store driven through its three POST endpoints *)

Init ==
    /\ graph_service = GraphRAGService_init
    /\ ai_service = AIAnalysisService_init
    /\ now = 0
    /\ request = [op |-> "none"]
    /\ response = [code |-> 0, status |-> "none"]
    /\ before = GraphRAGService_init
    /\ posts = 0
    /\ threads = [t \in Threads |-> idle]
    /\ serial = GraphRAGService_init

PostEntity == posts < MaxRequests /\ \E data \in EntityPayloads : add_entity(data)

PostTransaction ==
    posts < MaxRequests /\ \E data \in TransactionPayloads : add_transaction(data)

PostSar == posts < MaxRequests /\ \E data \in SarPayloads : add_sar(data)

Next == PostEntity \/ PostTransaction \/ PostSar

Spec == Init /\ [][Next]_vars
---------------------------------------------------------------------------
(* Entities declared, re-declared and named by SARs, among stub nodes *)

UpsertSarPayloads ==
    {SarBody("S1", "structuring", es, Narrative, l) :
        es \in {<<"E1">>, <<"E1", "E2">>},
        l \in {"low", "medium", "high", "critical"}}

UpsertTransactionPayloads ==
    {[transaction_id |-> "T1", timestamp |-> 0, amount |-> 5000, sender_id |-> p[1],
      receiver_id |-> p[2], transaction_type |-> "wire_transfer"] :
        p \in {<<"E1", "E2">>, <<"E2", "E1">>}}

FileSar == posts < MaxRequests /\ \E data \in UpsertSarPayloads : add_sar(data)

LinkEntities ==
    posts < MaxRequests /\ \E data \in UpsertTransactionPayloads : add_transaction(data)

NextUpsert == PostEntity \/ FileSar \/ LinkEntities

SpecUpsert == Init /\ [][NextUpsert]_vars

---------------------------------------------------------------------------
(* The transaction graph and its reachability query *)

GraphEntityIds == {"E1", "E2", "E3"}

\* fresh transaction ids, in the order they are handed out
TransactionIdSeq ==
    <<"T1", "T2", "T3", "T4", "T5", "T6", "T7", "T8", "T9", "T10", "T11", "T12",
      "T13", "T14", "T15", "T16", "T17", "T18">>

StoredTransactions == Cardinality(DOMAIN graph_service.transactions)

GraphTransactionPayloads ==
    {[transaction_id |-> TransactionIdSeq[StoredTransactions + 1], timestamp |-> 0,
      amount |-> 5000, sender_id |-> u, receiver_id |-> v,
      transaction_type |-> "wire_transfer"] : u \in GraphEntityIds, v \in GraphEntityIds}

PostGraphTransaction ==
    /\ StoredTransactions < MaxTransactions
    /\ \E data \in GraphTransactionPayloads : add_transaction(data)

CallFindConnected ==
    \E entity_id \in {"E1", "E9"}, max_depth \in 0..MaxDepth :
        find_connected_entities(entity_id, max_depth)

NextGraph == PostGraphTransaction \/ CallFindConnected

SpecGraph == Init /\ [][NextGraph]_vars

---------------------------------------------------------------------------
(* Structuring detection over transactions of a few kinds, as time passes *)

\* The kinds of transaction posted, each kind's transactions posted together:
\* exactly seven days old when the clock starts, at the floor of the band and
\* received, at the threshold, not touching E1, and eight days old.
DetectProfiles ==
    << [sender_id |-> "E1", receiver_id |-> "E2", amount |-> 9500, timestamp |-> -168],
       [sender_id |-> "E2", receiver_id |-> "E1", amount |-> 9000, timestamp |-> 0],
       [sender_id |-> "E1", receiver_id |-> "E2", amount |-> 10000, timestamp |-> 0],
       [sender_id |-> "E2", receiver_id |-> "E3", amount |-> 9500, timestamp |-> 0],
       [sender_id |-> "E1", receiver_id |-> "E2", amount |-> 9500, timestamp |-> -192] >>

DetectPayload(i) ==
    [transaction_id |-> TransactionIdSeq[StoredTransactions + 1],
     timestamp |-> DetectProfiles[i].timestamp, amount |-> DetectProfiles[i].amount,
     sender_id |-> DetectProfiles[i].sender_id,
     receiver_id |-> DetectProfiles[i].receiver_id,
     transaction_type |-> "wire_transfer"]

\* the kind of the transaction posted last
LastProfile ==
    IF StoredTransactions = 0 THEN 1
    ELSE LET last == graph_service.transactions[TransactionIdSeq[StoredTransactions]]
         IN  CHOOSE i \in 1..Len(DetectProfiles) :
                 /\ DetectProfiles[i].sender_id = last.sender_id
                 /\ DetectProfiles[i].receiver_id = last.receiver_id
                 /\ DetectProfiles[i].amount = last.amount
                 /\ DetectProfiles[i].timestamp = last.timestamp

PostDetectTransaction ==
    /\ StoredTransactions < MaxDetectTransactions
    /\ \E i \in LastProfile..Len(DetectProfiles) : add_transaction(DetectPayload(i))

CallDetectStructuring ==
    \E entity_id \in {"E1", "E3", "E9"} : detect_structuring_pattern(entity_id)

NextDetect == PostDetectTransaction \/ CallDetectStructuring \/ Tick

SpecDetect == Init /\ [][NextDetect]_vars

---------------------------------------------------------------------------
(* Circular transactions: a ring of nine entities with chords among the    *)
(* first three                                                             *)

CycleEntityIds == <<"E1", "E2", "E3", "E4", "E5", "E6", "E7", "E8", "E9">>

\* the transfers that may be posted, each at most once and in this order
CycleEdges ==
    << <<"E1", "E1">>, <<"E2", "E1">>, <<"E3", "E1">>, <<"E3", "E2">>,
       <<"E1", "E2">>, <<"E2", "E3">>, <<"E3", "E4">>, <<"E4", "E5">>,
       <<"E5", "E6">>, <<"E6", "E7">>, <<"E7", "E8">>, <<"E8", "E9">>,
       <<"E9", "E1">> >>

CyclePayload(i) ==
    [transaction_id |-> TransactionIdSeq[StoredTransactions + 1], timestamp |-> 0,
     amount |-> 5000, sender_id |-> CycleEdges[i][1],
     receiver_id |-> CycleEdges[i][2], transaction_type |-> "wire_transfer"]

\* the position in CycleEdges of the transfer posted last
LastCycleEdge ==
    IF StoredTransactions = 0 THEN 0
    ELSE LET last == graph_service.transactions[TransactionIdSeq[StoredTransactions]]
         IN  CHOOSE i \in 1..Len(CycleEdges) :
                 CycleEdges[i] = <<last.sender_id, last.receiver_id>>

PostCycleTransaction ==
    /\ StoredTransactions < MaxCycleTransactions
    /\ \E i \in (LastCycleEdge + 1)..Len(CycleEdges) :
          add_transaction(CyclePayload(i))

\* two listings of the graph's nodes in which the search may take them up
SearchOrders ==
    LET present == SelectSeq(CycleEntityIds,
                             LAMBDA n : n \in DOMAIN graph_service.graph_nodes)
    IN  {present, [i \in 1..Len(present) |-> present[Len(present) + 1 - i]]}

CallDetectCircular ==
    \E min_cycle_length \in {1, 3}, order \in SearchOrders :
        detect_circular_transactions(min_cycle_length, order)

NextCycle == PostCycleTransaction \/ CallDetectCircular

SpecCycle == Init /\ [][NextCycle]_vars

---------------------------------------------------------------------------
(* Narrative similarity: SARs filed with a few narratives, compared in pairs *)

\* the table keywords occurring in the narratives filed: none; two of the
\* three terrorist-financing words and one unusual-transaction word, twice in
\* different words; one structuring word; all structuring words; two
\* money-laundering words; one fraud and one terrorist-financing word
NarrativeWords ==
    {{}, {"funding", "terrorism", "unusual"}, {"extremist", "funding", "irregular"},
     {"multiple"}, {"multiple", "transactions", "below", "threshold", "avoid"},
     {"layering", "placement"}, {"fake", "terrorism"}}

SimilarityPayloads ==
    {SarBody(s, "structuring", <<"E1">>, [type |-> "str", words |-> w], "low") :
        s \in {"S1", "S2", "S3"}, w \in NarrativeWords}

FileNarrative ==
    posts < MaxRequests /\ \E data \in SimilarityPayloads : add_sar(data)

CallCosineSimilarity ==
    \E sar_a, sar_b \in DOMAIN ai_service.sar_embeddings :
        cosine_similarity_of(sar_a, sar_b)

NextSimilarity == FileNarrative \/ CallCosineSimilarity

SpecSimilarity == Init /\ [][NextSimilarity]_vars

---------------------------------------------------------------------------
(* All eight routes of the blueprint, one request at a time *)

RouteEntityPayloads ==
    {[entity_id |-> "E1", name |-> "Alice", entity_type |-> "person"],
     [entity_id |-> "E2", name |-> "Bob", entity_type |-> "person",
      risk_score |-> 90, risk_level |-> "critical"],
     [entity_id |-> "E1"]}

RouteTransactionPayloads ==
    {[transaction_id |-> t, timestamp |-> 0, amount |-> 9500, sender_id |-> p[1],
      receiver_id |-> p[2], transaction_type |-> "wire_transfer"] :
        t \in {"T1", "T2"}, p \in {<<"E1", "E2">>, <<"E2", "E3">>}}

RouteSarPayloads ==
    {SarBody("S1", "structuring", <<"E1">>, Narrative, "high"),
     SarBody("S2", "fraud", <<"E2", "E1">>,
             [type |-> "str", words |-> {"multiple", "fake"}], "medium"),
     SarBody("S2", "fraud", <<"E2">>, [type |-> "int"], "low"),
     SarBody("S1", "structuring", <<"E1">>, Narrative, "bogus")}

RouteEntity ==
    posts < MaxRequests /\ \E data \in RouteEntityPayloads : add_entity(data)

RouteTransaction ==
    posts < MaxRequests /\ \E data \in RouteTransactionPayloads : add_transaction(data)

RouteSar == posts < MaxRequests /\ \E data \in RouteSarPayloads : add_sar(data)

RouteDetectPatterns == \E entity_id \in {"E1", "E9"} : detect_patterns(entity_id)

RouteRiskAnalysis == \E entity_id \in {"E1", "E9"} : get_risk_analysis(entity_id)

RouteEntityGraph ==
    \E entity_id \in {"E1", "E9"}, args \in {EmptyDict, [depth |-> 1]} :
        get_entity_graph(entity_id, args)

RouteSimilarSars ==
    \E sar_id \in {"S1", "S9"},
       args \in {EmptyDict, [threshold |-> fl_zero]} :
        find_similar_sars(sar_id, args)

RouteStats == get_system_stats

CallEntityRiskScore ==
    \E entity_id \in {"E1", "E2", "E9"} : compute_entity_risk_score(entity_id)

NextRoutes ==
    \/ RouteEntity
    \/ RouteTransaction
    \/ RouteSar
    \/ RouteDetectPatterns
    \/ RouteRiskAnalysis
    \/ RouteEntityGraph
    \/ RouteSimilarSars
    \/ RouteStats
    \/ CallEntityRiskScore

SpecRoutes == Init /\ [][NextRoutes]_vars

---------------------------------------------------------------------------
(* The test client of app: requests to every path of the service *)

ClientPostEntity ==
    /\ posts < MaxRequests
    /\ \E data \in EntityPayloads :
          app_dispatch("POST", "/api/entities", data, add_entity(data))

ClientPostTransaction ==
    /\ posts < MaxRequests
    /\ \E data \in TransactionPayloads :
          app_dispatch("POST", "/api/transactions", data, add_transaction(data))

ClientPostSar ==
    /\ posts < MaxRequests
    /\ \E data \in SarPayloads :
          app_dispatch("POST", "/api/sars", data, add_sar(data))

ClientGet ==
    \/ \E rule \in {"/health", "/api"} :
          app_dispatch("GET", rule, EmptyDict, app_view(rule))
    \/ \E entity_id \in {"E1", "E9"} :
          \/ app_dispatch("GET", "/api/patterns/detect/<entity_id>",
                          [entity_id |-> entity_id], detect_patterns(entity_id))
          \/ app_dispatch("GET", "/api/risk-analysis/<entity_id>",
                          [entity_id |-> entity_id], get_risk_analysis(entity_id))
          \/ app_dispatch("GET", "/api/graph/<entity_id>",
                          [entity_id |-> entity_id],
                          get_entity_graph(entity_id, EmptyDict))
    \/ \E sar_id \in {"S1", "S9"} :
          app_dispatch("GET", "/api/sars/similar/<sar_id>", [sar_id |-> sar_id],
                       find_similar_sars(sar_id, EmptyDict))
    \/ app_dispatch("GET", "/api/stats", EmptyDict, get_system_stats)

ClientPostHealth ==
    /\ posts < MaxRequests
    /\ app_dispatch("POST", "/health", EmptyDict, app_view("/health"))

NextApp ==
    \/ ClientPostEntity
    \/ ClientPostTransaction
    \/ ClientPostSar
    \/ ClientPostHealth
    \/ ClientGet

SpecApp == Init /\ [][NextApp]_vars

---------------------------------------------------------------------------
(* The entity graph view over the transaction graph *)

ViewEntityGraph ==
    \E entity_id \in {"E1", "E9"},
       args \in {EmptyDict} \cup {[depth |-> d] : d \in 0..MaxDepth} :
        get_entity_graph(entity_id, args)

NextView == PostGraphTransaction \/ ViewEntityGraph

SpecView == Init /\ [][NextView]_vars

---------------------------------------------------------------------------
(* Requests on two worker threads of a threaded server *)

ThreadEntityPayloads ==
    {[entity_id |-> e, name |-> "Alice", entity_type |-> "person"] :
        e \in {"E1", "E2"}}

ThreadTransactionPayloads ==
    {[transaction_id |-> "T1", timestamp |-> 0, amount |-> 5000, sender_id |-> "E1",
      receiver_id |-> "E2", transaction_type |-> "wire_transfer"]}

\* each thread files a SAR of its own
ThreadSarPayloads(t) ==
    {SarBody(IF t = "w1" THEN "S1" ELSE "S2", "structuring", <<e>>, Narrative,
             IF t = "w1" THEN "high" ELSE "medium") : e \in {"E1", "E2"}}

ThreadEntity ==
    /\ posts < MaxThreadRequests
    /\ \E t \in Threads, data \in ThreadEntityPayloads : thread_add_entity(t, data)

ThreadTransaction ==
    /\ posts < MaxThreadRequests
    /\ \E t \in Threads, data \in ThreadTransactionPayloads :
          thread_add_transaction(t, data)

ThreadSar ==
    /\ posts < MaxThreadRequests
    /\ \E t \in Threads :
          \E data \in ThreadSarPayloads(t) :
              /\ data.sar_id \notin DOMAIN graph_service.sars
              /\ thread_add_sar(t, data)

ThreadSarRead == \E t \in Threads : thread_add_sar_read(t)

ThreadSarAssign == \E t \in Threads : thread_add_sar_assign(t)

ThreadSarAnalyze == \E t \in Threads : thread_add_sar_analyze(t)

ThreadRiskAnalysis == \E t \in Threads : thread_risk_analysis(t, "E1")

ThreadRiskAnalysisSars == \E t \in Threads : thread_risk_analysis_sars(t)

ThreadRiskAnalysisConnected == \E t \in Threads : thread_risk_analysis_connected(t)

ThreadRiskAnalysisReport == \E t \in Threads : thread_risk_analysis_report(t)

NextThreads ==
    \/ ThreadEntity
    \/ ThreadTransaction
    \/ ThreadSar
    \/ ThreadSarRead
    \/ ThreadSarAssign
    \/ ThreadSarAnalyze
    \/ ThreadRiskAnalysis
    \/ ThreadRiskAnalysisSars
    \/ ThreadRiskAnalysisConnected
    \/ ThreadRiskAnalysisReport

SpecThreads == Init /\ [][NextThreads]_vars

---------------------------------------------------------------------------
(* Structuring detection with thresholds other than the default one *)

\* the amounts posted, all between E1 and E2 and all dated now: nine tenths
\* of 5000, of 10000 and of 20000, a value inside each band, and 10000
BandAmounts == <<4500, 4800, 9000, 9500, 10000, 18000>>

Thresholds == {5000, 10000, 20000}

BandPayload(i) ==
    [transaction_id |-> TransactionIdSeq[StoredTransactions + 1],
     timestamp |-> 0, amount |-> BandAmounts[i],
     sender_id |-> IF i % 2 = 0 THEN "E1" ELSE "E2",
     receiver_id |-> IF i % 2 = 0 THEN "E2" ELSE "E1",
     transaction_type |-> "wire_transfer"]

\* the position in BandAmounts of the amount posted last
LastAmount ==
    IF StoredTransactions = 0 THEN 1
    ELSE CHOOSE i \in 1..Len(BandAmounts) :
             BandAmounts[i] =
                 graph_service.transactions[TransactionIdSeq[StoredTransactions]].amount

PostBandTransaction ==
    /\ StoredTransactions < MaxBandTransactions
    /\ \E i \in LastAmount..Len(BandAmounts) : add_transaction(BandPayload(i))

CallDetectStructuringWith ==
    \E threshold \in Thresholds :
        detect_structuring_pattern_with("E1", default_time_window_days, threshold)

NextBand == PostBandTransaction \/ CallDetectStructuringWith

SpecBand == Init /\ [][NextBand]_vars

---------------------------------------------------------------------------
(* Rapid movement detection over transactions of a few kinds, as time passes *)

\* The kinds of transaction posted, none dated after the clock's start: a
\* transfer of E1 to itself, a transfer received by E1 exactly 24 hours before
\* the clock starts, one sent by E1 48 hours before, and one not touching E1.
RapidProfiles ==
    << [sender_id |-> "E1", receiver_id |-> "E1", timestamp |-> 0],
       [sender_id |-> "E2", receiver_id |-> "E1", timestamp |-> -24],
       [sender_id |-> "E1", receiver_id |-> "E2", timestamp |-> -48],
       [sender_id |-> "E2", receiver_id |-> "E3", timestamp |-> 0] >>

RapidPayload(i) ==
    [transaction_id |-> TransactionIdSeq[StoredTransactions + 1],
     timestamp |-> RapidProfiles[i].timestamp, amount |-> 5000,
     sender_id |-> RapidProfiles[i].sender_id,
     receiver_id |-> RapidProfiles[i].receiver_id,
     transaction_type |-> "wire_transfer"]

\* the kind of the transaction posted last
LastRapidProfile ==
    IF StoredTransactions = 0 THEN 1
    ELSE LET last == graph_service.transactions[TransactionIdSeq[StoredTransactions]]
         IN  CHOOSE i \in 1..Len(RapidProfiles) :
                 /\ RapidProfiles[i].sender_id = last.sender_id
                 /\ RapidProfiles[i].receiver_id = last.receiver_id
                 /\ RapidProfiles[i].timestamp = last.timestamp

PostRapidTransaction ==
    /\ StoredTransactions < MaxRapidTransactions
    /\ \E i \in LastRapidProfile..Len(RapidProfiles) : add_transaction(RapidPayload(i))

CallDetectRapidMovement ==
    \E entity_id \in {"E1", "E3", "E9"},
       time_window_hours \in {default_time_window_hours, 48} :
        detect_rapid_movement(entity_id, time_window_hours)

NextRapid == PostRapidTransaction \/ CallDetectRapidMovement \/ Tick

SpecRapid == Init /\ [][NextRapid]_vars

---------------------------------------------------------------------------
(* Derived risk: entities declared once each, linked by transactions and    *)
(* named by SARs filed before or after them, some under a reused sar_id     *)

ScoreEntityIds == {"E1", "E2", "E3"}

ScoreEntityPayloads ==
    {[entity_id |-> e, name |-> "Alice", entity_type |-> "person", risk_score |-> r] :
        e \in ScoreEntityIds, r \in {0, 60}}

\* risk scores that the handler stores as they come
RawEntityPayloads ==
    {[entity_id |-> e, name |-> "Alice", entity_type |-> "person", risk_score |-> r] :
        e \in ScoreEntityIds, r \in {-50, 150}}

ScoreTransactionPayloads ==
    {[transaction_id |-> t, timestamp |-> 0, amount |-> 5000, sender_id |-> p[1],
      receiver_id |-> p[2], transaction_type |-> "wire_transfer"] :
        t \in {"T1", "T2"}, p \in {<<"E1", "E2">>, <<"E3", "E2">>}}

ScoreSarPayloads ==
    {SarBody(s, "structuring", es, Narrative, l) :
        s \in {"S1", "S2"},
        es \in {<<"E1">>, <<"E1", "E1">>, <<"E3">>},
        l \in {"low", "high"}}

\* an entity is declared once
DeclareEntity ==
    /\ posts < MaxScoreRequests
    /\ \E data \in ScoreEntityPayloads :
          /\ data.entity_id \notin DOMAIN graph_service.entities
          /\ add_entity(data)

DeclareRawEntity ==
    /\ posts < MaxScoreRequests
    /\ \E data \in RawEntityPayloads :
          /\ data.entity_id \notin DOMAIN graph_service.entities
          /\ add_entity(data)

ScoreTransaction ==
    /\ posts < MaxScoreRequests
    /\ \E data \in ScoreTransactionPayloads : add_transaction(data)

ScoreSar ==
    posts < MaxScoreRequests /\ \E data \in ScoreSarPayloads : add_sar(data)

CallScore == \E entity_id \in ScoreEntityIds : compute_entity_risk_score(entity_id)

NextScore == DeclareEntity \/ ScoreTransaction \/ ScoreSar \/ CallScore

SpecScore == Init /\ [][NextScore]_vars

NextScoreRaw == NextScore \/ DeclareRawEntity

SpecScoreRaw == Init /\ [][NextScoreRaw]_vars

---------------------------------------------------------------------------
(* Similar SARs: up to four SARs filed, some with the same narrative, and   *)
(* queried against each other                                               *)

\* the table keywords occurring in the narratives filed: one structuring and
\* one money-laundering word, and each of the two alone
SimilarNarratives ==
    {{"multiple", "layering"}, {"multiple"}, {"layering"}}

SimilarSarPayloads ==
    {SarBody(s, "structuring", <<"E1">>, [type |-> "str", words |-> w], "low") :
        s \in {"S1", "S2", "S3", "S4"}, w \in SimilarNarratives}

FileSimilarSar ==
    posts < MaxSimilarRequests /\ \E data \in SimilarSarPayloads : add_sar(data)

SimilarSarIds == <<"S1", "S2", "S3", "S4">>

\* the SARs stored, as listed when they were first filed in the order of
\* their ids, and when in the opposite order
SimilarOrders ==
    LET up == SelectSeq(SimilarSarIds, LAMBDA s : s \in DOMAIN graph_service.sars)
    IN  {up, [i \in 1..Len(up) |-> up[Len(up) + 1 - i]]}

GetSimilarSars ==
    \E args \in {EmptyDict, [threshold |-> fl_zero]}, all_sars \in SimilarOrders :
        find_similar_sars_listed("S1", args, all_sars)

NextSimilar == FileSimilarSar \/ GetSimilarSars

SpecSimilar == Init /\ [][NextSimilar]_vars

---------------------------------------------------------------------------
(* The aggregate score over its four inputs *)

\* the volumes tried: each boundary of the volume factor and its neighbour
Volumes == <<0, 10000, 10001, 100000, 100001, 1000000, 1000001>>

\* the arguments of the last call, those of a first call being all the least
LastArguments ==
    IF request.op = "compute_risk_score"
    THEN [entity_connections |-> request.entity_connections,
          sar_count |-> request.sar_count,
          volume |-> CHOOSE i \in 1..Len(Volumes) :
                         Volumes[i] = request.transaction_volume,
          pattern_count |-> request.pattern_count]
    ELSE [entity_connections |-> 0, sar_count |-> 0, volume |-> 1, pattern_count |-> 0]

Near(n, max) == {k \in {n - 1, n, n + 1} : k >= 0 /\ k <= max}

\* a call whose arguments differ from those of the last call in one argument
\* by one step
CallComputeRiskScore ==
    LET last == LastArguments
    IN  \E ec \in Near(last.entity_connections, MaxConnections),
           sc \in Near(last.sar_count, MaxSarCount),
           v \in Near(last.volume - 1, Len(Volumes) - 1),
           pc \in Near(last.pattern_count, MaxPatternCount) :
            /\ Cardinality({x \in {<<1, ec - last.entity_connections>>,
                                   <<2, sc - last.sar_count>>,
                                   <<3, v + 1 - last.volume>>,
                                   <<4, pc - last.pattern_count>>} : x[2] # 0}) <= 1
            /\ call_compute_risk_score(ec, sc, Volumes[v + 1], pc)

NextAggregate == CallComputeRiskScore

SpecAggregate == Init /\ [][NextAggregate]_vars

---------------------------------------------------------------------------
(* Risk analysis and pattern detection of an entity with transactions just  *)
(* below the reporting threshold                                            *)

ReportTransactionPayloads ==
    {[transaction_id |-> t, timestamp |-> 0, amount |-> a, sender_id |-> p[1],
      receiver_id |-> p[2], transaction_type |-> "wire_transfer"] :
        t \in {"T1", "T2", "T3"}, a \in {9500, 12000},
        p \in {<<"E1", "E2">>, <<"E2", "E3">>, <<"E3", "E1">>}}

ReportTransaction ==
    /\ posts < MaxRequests
    /\ \E data \in ReportTransactionPayloads : add_transaction(data)

ReportDetectPatterns == \E entity_id \in {"E1", "E2"} : detect_patterns(entity_id)

ReportRiskAnalysis == \E entity_id \in {"E1", "E2"} : get_risk_analysis(entity_id)

NextReport == ReportTransaction \/ ReportDetectPatterns \/ ReportRiskAnalysis

SpecReport == Init /\ [][NextReport]_vars

---------------------------------------------------------------------------
(* Properties of the store *)

\* The bucketing rule of the data model; 30, 60 and 80 open the higher tier.
Bucketing(score) ==
    CASE score >= 80 -> "CRITICAL"
      [] score >= 60 /\ score < 80 -> "HIGH"
      [] score >= 30 /\ score < 60 -> "MEDIUM"
      [] score < 30 -> "LOW"

\* The step a SAR of the given (request) risk level adds, in hundredths.
SarStep(risk_level) ==
    CASE risk_level = "low" -> 10
      [] risk_level = "medium" -> 25
      [] risk_level = "high" -> 50
      [] risk_level = "critical" -> 80

ElementsOf(seq) == {seq[i] : i \in 1..Len(seq)}

Filed(op) == request.op = op /\ response.code = 201

\* C1: every stored entity has a risk_score within [0,1] and a risk_level that
\* is the bucketing of that score.
C1_RiskScoreBucketed ==
    \A e \in DOMAIN graph_service.entities :
        /\ graph_service.entities[e].risk_score \in 0..100
        /\ graph_service.entities[e].risk_level =
               Bucketing(graph_service.entities[e].risk_score)

\* C2: a filed SAR moves exactly the known entities it names, each to
\* min(1.0, old + step) with the level re-bucketed; unknown ids create neither
\* an entity nor a graph node; every other entity is unchanged.
C2_SarPropagation ==
    Filed("add_sar") =>
        LET named == ElementsOf(request.data.entities_involved)
            step == SarStep(request.data.risk_level)
        IN  /\ DOMAIN graph_service.entities = DOMAIN before.entities
            /\ DOMAIN graph_service.graph_nodes = DOMAIN before.graph_nodes
            /\ \A e \in DOMAIN before.entities :
                  graph_service.entities[e] =
                      IF e \in named
                      THEN [before.entities[e] EXCEPT
                               !.risk_score = Min(100, @ + step),
                               !.risk_level = Bucketing(
                                   Min(100, before.entities[e].risk_score + step))]
                      ELSE before.entities[e]

\* the edges of the graph from u to v
EdgesBetween(u, v) ==
    IF <<u, v>> \in DOMAIN graph_service.graph_edges
    THEN {graph_service.graph_edges[<<u, v>>]}
    ELSE {}

\* C3: two stored transactions with distinct ids between the same sender and
\* receiver each have their own edge, carrying their own id and amount.
C3_ParallelEdgesKept ==
    \A t1, t2 \in DOMAIN graph_service.transactions :
        LET a == graph_service.transactions[t1]
            b == graph_service.transactions[t2]
        IN  (t1 # t2 /\ a.sender_id = b.sender_id /\ a.receiver_id = b.receiver_id)
            => /\ Cardinality(EdgesBetween(a.sender_id, a.receiver_id)) >= 2
               /\ \A t \in {a, b} :
                     \E e \in EdgesBetween(a.sender_id, a.receiver_id) :
                         e.transaction_id = t.transaction_id /\ e.amount = t.amount

\* C4: an undeclared endpoint of an added transaction becomes a stored entity
\* with risk 0.0 / LOW, a declared endpoint keeps its fields, and a later SAR
\* naming any node of the graph raises that entity's stored risk_score.
C4_StubIsEntity ==
    /\ Filed("add_transaction") =>
          \A e \in {request.data.sender_id, request.data.receiver_id} :
              IF e \in DOMAIN before.entities
              THEN graph_service.entities[e] = before.entities[e]
              ELSE /\ e \in DOMAIN graph_service.entities
                   /\ graph_service.entities[e].risk_score = 0
                   /\ graph_service.entities[e].risk_level = "LOW"
    /\ Filed("add_sar") =>
          \A e \in ElementsOf(request.data.entities_involved) :
              e \in DOMAIN before.graph_nodes =>
                  /\ e \in DOMAIN graph_service.entities
                  /\ graph_service.entities[e].risk_score
                         >= SarStep(request.data.risk_level)

\* C5: no request changes the sender, receiver, amount or timestamp stored
\* under a transaction id.
C5_TransactionImmutable ==
    \A t \in DOMAIN before.transactions :
        /\ t \in DOMAIN graph_service.transactions
        /\ graph_service.transactions[t] = before.transactions[t]

\* C7: a request answered with an error leaves the maps, the graph and every
\* entity's risk state as they were.
C7_ErrorLeavesStore ==
    response.status = "error" => graph_service = before

RiskLevelStrings == {"low", "medium", "high", "critical"}

ActivityTypeStrings ==
    {"structuring", "money_laundering", "fraud", "terrorist_financing",
     "unusual_transaction", "multiple_accounts", "high_risk_jurisdiction"}

UnrecognizedEnum(data) ==
    \/ "risk_level" \in DOMAIN data /\ data.risk_level \notin RiskLevelStrings
    \/ "activity_type" \in DOMAIN data /\ data.activity_type \notin ActivityTypeStrings

\* C8: a create request with an unrecognized enum string is not answered with
\* the 400 "Missing field" failure of an absent field.
C8_EnumFailureDistinct ==
    (request.op \in {"add_entity", "add_sar"} /\ UnrecognizedEnum(request.data))
        => ~(response.code = 400 /\ response.message[1] = "Missing field: ")
\* the RiskLevel member a request string names
LevelNamed(risk_level) ==
    CASE risk_level = "low" -> "LOW"
      [] risk_level = "medium" -> "MEDIUM"
      [] risk_level = "high" -> "HIGH"
      [] risk_level = "critical" -> "CRITICAL"

\* the entity a payload describes, absent risk fields read as 0.0 / LOW
Described(data) ==
    [entity_id |-> data.entity_id, name |-> data.name,
     entity_type |-> data.entity_type,
     risk_score |-> IF "risk_score" \in DOMAIN data THEN data.risk_score ELSE 0,
     risk_level |-> IF "risk_level" \in DOMAIN data
                    THEN LevelNamed(data.risk_level) ELSE "LOW"]

\* C6: after add entity(e) the entity stored under e's id has exactly e's name,
\* type, risk_score and risk_level, whatever was stored before; adding the
\* payload that is already stored changes no stored entity.
C6_AddEntityUpsert ==
    Filed("add_entity") =>
        /\ graph_service.entities[request.data.entity_id] = Described(request.data)
        /\ (/\ request.data.entity_id \in DOMAIN before.entities
            /\ before.entities[request.data.entity_id] = Described(request.data))
           => graph_service.entities = before.entities

\* C6 witness: an entity whose risk a SAR had raised is re-declared without
\* risk fields and is back at 0.0 / LOW.
C6_ReAddResetsRisk ==
    /\ Filed("add_entity")
    /\ "risk_score" \notin DOMAIN request.data
    /\ request.data.entity_id \in DOMAIN before.entities
    /\ before.entities[request.data.entity_id].risk_score > 0
    /\ \E s \in DOMAIN before.sars :
          request.data.entity_id \in ElementsOf(before.sars[s].entities_involved)
    /\ graph_service.entities[request.data.entity_id].risk_score = 0
    /\ graph_service.entities[request.data.entity_id].risk_level = "LOW"

\* the nodes at most k hops from entity_id, edge direction ignored
RECURSIVE WithinHops(_, _)
WithinHops(entity_id, k) ==
    IF k = 0 THEN {entity_id}
    ELSE LET inner == WithinHops(entity_id, k - 1)
         IN  inner \cup
             {m \in DOMAIN graph_service.graph_nodes :
                 \E n \in inner : \/ <<n, m>> \in DOMAIN graph_service.graph_edges
                                  \/ <<m, n>> \in DOMAIN graph_service.graph_edges}

\* C9: find_connected_entities(id, d) is exactly the set of nodes other than id
\* at undirected distance 1..d from id, and is empty for an id not in the graph.
C9_ConnectedWithinDepth ==
    request.op = "find_connected_entities" =>
        response.result =
            IF request.entity_id \in DOMAIN graph_service.graph_nodes
            THEN WithinHops(request.entity_id, request.max_depth) \ {request.entity_id}
            ELSE {}

\* C9 witness: a query from a node with a self-loop that returns a node reached
\* against the direction of its edge and leaves out a node one hop too far.
C9_DepthCutsOff ==
    /\ request.op = "find_connected_entities"
    /\ <<request.entity_id, request.entity_id>> \in DOMAIN graph_service.graph_edges
    /\ \E m \in response.result :
          /\ <<m, request.entity_id>> \in DOMAIN graph_service.graph_edges
          /\ <<request.entity_id, m>> \notin DOMAIN graph_service.graph_edges
    /\ \E m \in WithinHops(request.entity_id, request.max_depth + 1) :
          m \notin response.result /\ m # request.entity_id

\* the transactions that count towards structuring for a call: they touch the
\* entity, are at most seven days old and lie in [9000, 10000)
Structuring(entity_id, at) ==
    {t \in DOMAIN graph_service.transactions :
        /\ entity_id \in {graph_service.transactions[t].sender_id,
                          graph_service.transactions[t].receiver_id}
        /\ at - graph_service.transactions[t].timestamp \in 0..(7 * 24)
        /\ graph_service.transactions[t].amount >= 9000
        /\ graph_service.transactions[t].amount < 10000}

\* C10: detect structuring returns a pattern exactly when at least 3 such
\* transactions exist; the pattern lists them, with confidence min(1, count/10)
\* and level HIGH above 0.7, MEDIUM otherwise; else it returns no pattern.
C10_StructuringPattern ==
    request.op = "detect_structuring_pattern" =>
        LET found == Structuring(request.entity_id, request.at)
            confidence == Min(100, 10 * Cardinality(found))
        IN  IF Cardinality(found) >= 3
            THEN /\ response.result.type = "Pattern"
                 /\ response.result.transactions_involved = found
                 /\ response.result.confidence_score = confidence
                 /\ response.result.risk_level =
                        IF confidence > 70 THEN "HIGH" ELSE "MEDIUM"
            ELSE response.result = None

---------------------------------------------------------------------------
(* Circular transactions *)

Nodes == DOMAIN graph_service.graph_nodes

\* the paths of k distinct nodes that follow the graph's edges
RECURSIVE SimplePaths(_)
SimplePaths(k) ==
    IF k = 1 THEN {<<n>> : n \in Nodes}
    ELSE {Append(x[1], x[2]) :
            x \in {y \in SimplePaths(k - 1) \X Nodes :
                      /\ <<y[1][k - 1], y[2]>> \in DOMAIN graph_service.graph_edges
                      /\ \A j \in 1..(k - 1) : y[1][j] # y[2]}}

\* a simple directed cycle: a simple path whose last node has an edge to its
\* first one; every cycle occurs here once per starting node
SimpleCycles ==
    UNION {{c \in SimplePaths(k) :
               <<c[k], c[1]>> \in DOMAIN graph_service.graph_edges} :
           k \in 1..Cardinality(Nodes)}

SameCycle(c, d) ==
    /\ Len(c) = Len(d)
    /\ \E r \in 0..(Len(c) - 1) :
          \A i \in 1..Len(c) : d[i] = c[((i + r - 1) % Len(c)) + 1]

\* C11: detect circular transactions(minCycleLength) emits exactly one
\* pattern for every simple directed cycle of at least minCycleLength nodes
\* and none for a shorter one; the pattern lists the cycle's entities in
\* cycle order and, for each consecutive pair, the id of a stored transaction
\* from the one to the other; its confidence is min(1, length / 10) and its
\* risk_level CRITICAL when the confidence exceeds 0.8, HIGH otherwise.
C11_CircularPatterns ==
    request.op = "detect_circular_transactions" =>
        LET patterns == response.result
            reported(c) == {i \in 1..Len(patterns) :
                               SameCycle(c, patterns[i].entities_involved)}
        IN  /\ \A c \in SimpleCycles :
                  Cardinality(reported(c)) =
                      IF Len(c) >= request.min_cycle_length THEN 1 ELSE 0
            /\ \A i \in 1..Len(patterns) :
                  LET c == patterns[i].entities_involved
                      ts == patterns[i].transactions_involved
                  IN  /\ c \in SimpleCycles
                      /\ patterns[i].pattern_type = "circular_transactions"
                      /\ Len(ts) = Len(c)
                      /\ \A j \in 1..Len(c) :
                            /\ ts[j] \in DOMAIN graph_service.transactions
                            /\ graph_service.transactions[ts[j]].sender_id = c[j]
                            /\ graph_service.transactions[ts[j]].receiver_id =
                                   c[(j % Len(c)) + 1]
                      /\ patterns[i].confidence_score = Min(100, 10 * Len(c))
                      /\ patterns[i].risk_level =
                            IF 10 * Len(c) > 80 THEN "CRITICAL" ELSE "HIGH"

\* With a self-loop, a three-entity cycle and the nine-entity ring in the
\* graph, the default minimum length reports the three-entity cycle as HIGH
\* with confidence 0.3 and the ring as CRITICAL, and leaves the self-loop out.
C11_ThreeCycleAndRing ==
    /\ request.op = "detect_circular_transactions"
    /\ request.min_cycle_length = 3
    /\ <<"E1", "E1">> \in DOMAIN graph_service.graph_edges
    /\ \E i, j \in 1..Len(response.result) :
          /\ SameCycle(<<"E1", "E2", "E3">>, response.result[i].entities_involved)
          /\ response.result[i].confidence_score = 30
          /\ response.result[i].risk_level = "HIGH"
          /\ Len(response.result[j].entities_involved) = 9
          /\ response.result[j].risk_level = "CRITICAL"
    /\ \A i \in 1..Len(response.result) :
          Len(response.result[i].entities_involved) >= 3

---------------------------------------------------------------------------
(* Narrative similarity *)

NonZero(vec) == \E i \in 1..Len(vec) : vec[i] # fl_zero

\* C12: similarity(a, b) equals similarity(b, a), lies in [0, 1], is 1 for
\* similarity(a, a) when a's embedding is non-zero, and is 0 when either
\* embedding has zero norm.
C12_Similarity ==
    request.op = "cosine_similarity" =>
        LET vec1 == ai_service.sar_embeddings[request.a]
            vec2 == ai_service.sar_embeddings[request.b]
            similarity == response.result
        IN  /\ similarity = cosine_similarity(vec2, vec1)
            /\ fl_le(fl_zero, similarity) /\ fl_le(similarity, fl_int(1))
            /\ request.a = request.b /\ NonZero(vec1) => similarity = fl_int(1)
            /\ ~NonZero(vec1) \/ ~NonZero(vec2) => similarity = fl_zero

\* what holds of the rounded similarity: symmetry, no negative value, and 0
\* for an embedding of zero norm
C12_SymmetricAndGuarded ==
    request.op = "cosine_similarity" =>
        LET vec1 == ai_service.sar_embeddings[request.a]
            vec2 == ai_service.sar_embeddings[request.b]
        IN  /\ response.result = cosine_similarity(vec2, vec1)
            /\ fl_le(fl_zero, response.result)
            /\ ~NonZero(vec1) \/ ~NonZero(vec2) => response.result = fl_zero

---------------------------------------------------------------------------
(* Growth and frame of the store *)

Collections == {"entities", "transactions", "sars", "graph_nodes", "graph_edges"}

\* C14: no operation deletes data: the entity ids, transaction ids, SAR ids,
\* graph nodes and graph edges present when a request arrives are all present
\* when it has been answered, so none of the counts that system stats reports
\* for these collections (their sizes) ever decreases.
C14_NothingDeleted ==
    /\ \A c \in Collections :
          /\ DOMAIN before[c] \subseteq DOMAIN graph_service[c]
          /\ Cardinality(DOMAIN before[c]) <= Cardinality(DOMAIN graph_service[c])
    /\ request.op = "get_system_stats" =>
          /\ response.stats.total_entities = Cardinality(DOMAIN graph_service.entities)
          /\ response.stats.total_transactions =
                 Cardinality(DOMAIN graph_service.transactions)
          /\ response.stats.total_sars = Cardinality(DOMAIN graph_service.sars)
          /\ response.stats.graph_nodes = Cardinality(DOMAIN graph_service.graph_nodes)
          /\ response.stats.graph_edges = Cardinality(DOMAIN graph_service.graph_edges)

\* A transaction id posted again between other entities: the edge of the
\* first posting stays in the graph beside the new one.
C14_RepostKeepsEdge ==
    /\ Filed("add_transaction")
    /\ request.data.transaction_id \in DOMAIN before.transactions
    /\ before.transactions[request.data.transaction_id].sender_id
           # request.data.sender_id
    /\ Cardinality(DOMAIN graph_service.graph_edges) = 2
    /\ Cardinality(DOMAIN graph_service.transactions) = 1

Queries ==
    {"detect_patterns", "get_risk_analysis", "get_entity_graph",
     "find_similar_sars", "get_system_stats", "compute_entity_risk_score"}

---------------------------------------------------------------------------
(* The application object *)

\* C13: every operation endpoint of the core is served by app: no request to
\* one of them is left without a view, and a valid POST to /api/entities is
\* answered 201 with status success and the entity id.
C13_EndpointsServed ==
    /\ request.op = "no_view" =>
          <<request.method, request.rule>> \notin suspicious_activity_bp
    /\ /\ request.op \in {"no_view", "add_entity"}
       /\ request.op = "no_view" => request.rule = "/api/entities"
       /\ parse_entity(request.data).ok
       => /\ response.code = 201
          /\ response.status = "success"
          /\ response.message[2] = request.data.entity_id

---------------------------------------------------------------------------
(* Entity graph view *)

\* the nodes the view of entity_id to `depth` is to show
ViewNodes(entity_id, depth) ==
    IF entity_id \in DOMAIN graph_service.graph_nodes /\ depth >= 0
    THEN WithinHops(entity_id, depth)
    ELSE IF entity_id \in DOMAIN graph_service.graph_nodes THEN {entity_id}
    ELSE {}

\* C16: entity graph view(id, depth) answers without error; its nodes are id
\* and connectedEntities(id, depth), each once; its edges are the directed
\* transaction edges between two of these nodes, one for every stored
\* transaction, with that transaction's id and amount; an id that is not in
\* the graph gives an empty node list and an empty edge list.
C16_GraphView ==
    request.op = "get_entity_graph" =>
        LET graph == response.graph
            shown == ViewNodes(request.entity_id, request.depth)
            between == {t \in DOMAIN graph_service.transactions :
                           /\ graph_service.transactions[t].sender_id \in shown
                           /\ graph_service.transactions[t].receiver_id \in shown}
        IN  /\ response.code = 200
            /\ {graph.nodes[i].id : i \in 1..Len(graph.nodes)} = shown
            /\ Len(graph.nodes) = Cardinality(shown)
            /\ Len(graph.edges) = Cardinality(between)
            /\ \A t \in between :
                  \E i \in 1..Len(graph.edges) :
                      /\ graph.edges[i].transaction_id = t
                      /\ graph.edges[i].source = graph_service.transactions[t].sender_id
                      /\ graph.edges[i].target =
                             graph_service.transactions[t].receiver_id
                      /\ graph.edges[i].amount = graph_service.transactions[t].amount

\* the view as a view of the graph the store keeps: the same nodes, and one
\* edge for every ordered pair of them that has an edge in the graph
C16_ViewOfStoredGraph ==
    request.op = "get_entity_graph" =>
        LET graph == response.graph
            shown == ViewNodes(request.entity_id, request.depth)
            between == {x \in DOMAIN graph_service.graph_edges :
                           x[1] \in shown /\ x[2] \in shown}
        IN  /\ response.code = 200
            /\ {graph.nodes[i].id : i \in 1..Len(graph.nodes)} = shown
            /\ Len(graph.nodes) = Cardinality(shown)
            /\ Len(graph.edges) = Cardinality(between)
            /\ \A x \in between :
                  \E i \in 1..Len(graph.edges) :
                      /\ graph.edges[i].source = x[1]
                      /\ graph.edges[i].target = x[2]
                      /\ graph.edges[i].transaction_id =
                             graph_service.graph_edges[x].transaction_id
                      /\ graph.edges[i].amount = graph_service.graph_edges[x].amount

---------------------------------------------------------------------------
(* Concurrent requests *)

Quiescent == \A t \in Threads : threads[t].pc = "idle"

Analysed(t) == threads[t].pc = "idle" /\ threads[t].op = "get_risk_analysis"

\* no SAR filing loses its increment: once every request has returned, each
\* entity carries the score it has when the requests run one after another
C17_NoLostUpdate == Quiescent => graph_service.entities = serial.entities

\* the three findings of a risk analysis are those of one store state among
\* the states the store was in while the analysis ran
C17_OneSnapshot ==
    \A t \in Threads :
        Analysed(t) /\ threads[t].response.code = 200 =>
            \E self \in threads[t].stores :
                threads[t].response.report.findings
                    = risk_analysis(self, threads[t].response.report.entity_id,
                                    node_order(self)).findings

\* no risk analysis fails because a request was adding to the store
C17_QueryDoesNotFail ==
    \A t \in Threads : Analysed(t) => threads[t].response.code = 200

\* C17: concurrent requests behave as if each ran atomically on one snapshot
\* of the store: SAR filings that name the same entity all contribute their
\* increment, the related-SAR count, connection count and transaction volume
\* of a risk analysis come from one store state, and no risk analysis fails
\* because of a concurrent mutation.
C17_RequestsAtomic ==
    /\ C17_NoLostUpdate
    /\ C17_OneSnapshot
    /\ C17_QueryDoesNotFail

---------------------------------------------------------------------------
(* Structuring detection: the amount band and the time window *)

\* the transactions touching the entity whose amount satisfies in_band
Banded(entity_id, in_band(_)) ==
    {t \in DOMAIN graph_service.transactions :
        /\ \/ graph_service.transactions[t].sender_id = entity_id
           \/ graph_service.transactions[t].receiver_id = entity_id
        /\ in_band(graph_service.transactions[t].amount)}

\* the pattern returned lists exactly the transactions in `kept`, when there
\* are three of them
Keeps(kept) ==
    IF Cardinality(kept) >= 3
    THEN /\ response.result.type = "Pattern"
         /\ response.result.transactions_involved = kept
    ELSE response.result = None

\* C18: for any threshold T the amount filter keeps exactly the transactions
\* with 0.9 * T <= amount < T: an amount of T is left out and an amount of
\* 0.9 * T is kept.
C18_AmountBand ==
    request.op = "detect_structuring_pattern_with" =>
        Keeps(Banded(request.entity_id,
                     LAMBDA amount : /\ 10 * amount >= 9 * request.threshold
                                     /\ amount < request.threshold))

\* the band the filter applies: from 9000, whatever the threshold
C18_BandFromNineThousand ==
    request.op = "detect_structuring_pattern_with" =>
        Keeps(Banded(request.entity_id,
                     LAMBDA amount : amount >= 9000 /\ amount < request.threshold))

\* C19: with a window of W days, a transaction older than W days (W days and
\* one hour, say) is never counted towards the pattern.
C19_WindowInDays ==
    /\ request.op = "detect_structuring_pattern"
    /\ response.result # None
    => \A t \in response.result.transactions_involved :
           request.at - graph_service.transactions[t].timestamp
               <= 24 * default_time_window_days

---------------------------------------------------------------------------
(* Rapid movement *)

\* the stored transactions that touch the entity, as sender or as receiver
Touching(entity_id) ==
    {t \in DOMAIN graph_service.transactions :
        \/ graph_service.transactions[t].sender_id = entity_id
        \/ graph_service.transactions[t].receiver_id = entity_id}

\* those made within `hours` hours before the instant `at`
Rapid(entity_id, hours, at) ==
    {t \in Touching(entity_id) :
        /\ at - graph_service.transactions[t].timestamp >= 0
        /\ at - graph_service.transactions[t].timestamp <= hours}

---------------------------------------------------------------------------
(* Derived entity risk *)

\* the declared entities other than entity_id within two hops of it whose
\* stored risk_score is above 0.5
HighRiskConnections(entity_id) ==
    {e \in (WithinHops(entity_id, 2) \ {entity_id}) \cap DOMAIN graph_service.entities :
        graph_service.entities[e].risk_score > 50}

\* the stored SARs that name entity_id or an entity within two hops of it
RelatedSars(entity_id) ==
    {s \in DOMAIN graph_service.sars :
        ElementsOf(graph_service.sars[s].entities_involved)
            \cap WithinHops(entity_id, 2) # {}}

\* min(1.0, stored + min(0.3, 0.05 * h) + min(0.3, 0.10 * r)), in hundredths
DerivedScore(stored, h, r) == Min(100, stored + Min(30, 5 * h) + Min(30, 10 * r))

\* the value entityRiskScore returns is the formula of the stored score, the
\* high-risk connections and the related SARs, and the formula does not
\* decrease when one more connection or one more SAR is counted
C21_ScoreFormula ==
    /\ request.op = "compute_entity_risk_score"
    /\ request.entity_id \in DOMAIN graph_service.entities
    => LET stored == graph_service.entities[request.entity_id].risk_score
           h == Cardinality(HighRiskConnections(request.entity_id))
           r == Cardinality(RelatedSars(request.entity_id))
       IN  /\ response.result = DerivedScore(stored, h, r)
           /\ DerivedScore(stored, h + 1, r) >= DerivedScore(stored, h, r)
           /\ DerivedScore(stored, h, r + 1) >= DerivedScore(stored, h, r)

\* C21: entityRiskScore(id) is min(1.0, stored risk_score + min(0.3, 0.05 * h)
\* + min(0.3, 0.10 * r)), h the entities within depth 2 with a stored score
\* above 0.5 and r the stored SARs naming id or an entity within depth 2; it
\* does not decrease in h or in r, and it lies in [0, 1].
C21_EntityRiskScore ==
    /\ C21_ScoreFormula
    /\ request.op = "compute_entity_risk_score" =>
          response.result >= 0 /\ response.result <= 100

---------------------------------------------------------------------------
(* Similar SARs *)

\* the similarity of the narratives stored under two sar ids
Similarity(a, b) ==
    cosine_similarity(create_simple_embedding(graph_service.sars[a].narrative),
                      create_simple_embedding(graph_service.sars[b].narrative))

\* the place of a sar id in the list of candidates
Place(all_sars, sar_id) == CHOOSE i \in 1..Len(all_sars) : all_sars[i] = sar_id

\* C22: findSimilar returns exactly the candidates other than the query whose
\* similarity to it is at least the threshold, each once and with that
\* similarity, sorted by similarity descending, candidates of equal similarity
\* in their original order; the query is never in its own result.
C22_FindSimilar ==
    request.op = "find_similar_sars" /\ response.code = 200 =>
        LET result == response.similar_sars
            kept == {o \in DOMAIN graph_service.sars \ {request.sar_id} :
                        fl_le(request.threshold, Similarity(request.sar_id, o))}
        IN  /\ {result[i].sar_id : i \in 1..Len(result)} = kept
            /\ Len(result) = Cardinality(kept)
            /\ response.similar_count = Cardinality(kept)
            /\ \A i \in 1..Len(result) :
                  result[i].similarity = Similarity(request.sar_id, result[i].sar_id)
            /\ \A i, j \in 1..Len(result) :
                  i < j =>
                      /\ fl_le(result[j].similarity, result[i].similarity)
                      /\ result[i].similarity = result[j].similarity
                             => Place(request.all_sars, result[i].sar_id)
                                    < Place(request.all_sars, result[j].sar_id)

\* a result with two candidates of equal similarity behind a more similar
\* one that comes last among the candidates
C22_TieBehindCloser ==
    /\ request.op = "find_similar_sars"
    /\ response.code = 200
    /\ Len(response.similar_sars) = 3
    /\ response.similar_sars[1].similarity # response.similar_sars[2].similarity
    /\ response.similar_sars[2].similarity = response.similar_sars[3].similarity
    /\ response.similar_sars[1].sar_id = request.all_sars[Len(request.all_sars)]

---------------------------------------------------------------------------
(* The aggregate score *)

\* the volume factor: 0.3 above 1,000,000, 0.2 above 100,000, 0.1 above
\* 10,000, else 0
VolumeFactor(volume) ==
    IF volume > 1000000 THEN fl_tenths(3)
    ELSE IF volume > 100000 THEN fl_tenths(2)
    ELSE IF volume > 10000 THEN fl_tenths(1)
    ELSE fl_zero

\* the level the bucketing gives a score
Bucket(score) ==
    IF ~fl_lt(score, fl_tenths(8)) THEN "CRITICAL"
    ELSE IF ~fl_lt(score, fl_tenths(6)) THEN "HIGH"
    ELSE IF ~fl_lt(score, fl_tenths(3)) THEN "MEDIUM"
    ELSE "LOW"

\* min(cap, step * count), count times the step being capped by comparing
\* the count with the number of steps that reach the cap
Capped(cap, step, count, steps_to_cap) ==
    IF count > steps_to_cap THEN cap
    ELSE fl_min(cap, fl_mul(step, fl_int(count)))

---------------------------------------------------------------------------
(* The risk analysis report *)

\* the types of the patterns that detect patterns finds for the entity on
\* the store as it is
DetectedTypes(entity_id) ==
    LET order == CHOOSE o \in Orders(DOMAIN graph_service.graph_nodes) : TRUE
        circular == GraphRAGService_detect_circular_transactions(
                        graph_service, default_min_cycle_length, order)
    IN  (IF GraphRAGService_detect_structuring_pattern(
                graph_service, entity_id, default_time_window_days,
                default_threshold, now) # None
         THEN {"structuring"} ELSE {})
        \cup (IF GraphRAGService_detect_rapid_movement(
                     graph_service, entity_id, default_time_window_hours, now) # None
              THEN {"rapid_movement"} ELSE {})
        \cup (IF \E i \in 1..Len(circular) :
                     entity_id \in ElementsOf(circular[i].entities_involved)
              THEN {"circular_transactions"} ELSE {})

\* the recommendation the report makes for a type of pattern
RecommendationFor ==
    [structuring |-> "Investigate for potential structuring activity",
     circular_transactions |->
         "Analyze circular transaction pattern for money laundering indicators",
     rapid_movement |-> "Review rapid fund movement for layering activity"]

\* C24: the pattern list of the risk analysis report is what detect patterns
\* finds for the entity on the same store, so an entity with a detected
\* structuring, circular or rapid-movement pattern has the corresponding
\* recommendation in its report.
C24_ReportFromDetector ==
    request.op = "get_risk_analysis" /\ response.code = 200 =>
        LET report == response.report
            found == DetectedTypes(request.entity_id)
        IN  /\ ElementsOf(report.detected_patterns) = found
            /\ \A type \in found :
                  RecommendationFor[type] \in ElementsOf(report.recommendations)

---------------------------------------------------------------------------
(* Stored risk and the SARs on file *)

\* the step a SAR of a level adds to the risk of an entity it names
Step == [LOW |-> 10, MEDIUM |-> 25, HIGH |-> 50, CRITICAL |-> 80]

\* the stored SARs that name the entity
Naming(entity_id) ==
    {s \in DOMAIN graph_service.sars :
        entity_id \in ElementsOf(graph_service.sars[s].entities_involved)}

\* the scores an entity can have been declared with
DeclaredScores == {data.risk_score : data \in ScoreEntityPayloads}

\* C25: while no entity is re-added, the stored risk_score of every declared
\* entity is min(1.0, its score at declaration + the steps of the stored
\* SARs that name it), every stored SAR counted once, whether or not it
\* repeats the id, was filed more than once, or was filed before the entity
\* was declared.
C25_StoredRiskIsSumOfSteps ==
    \A e \in DOMAIN graph_service.entities :
        \E declared \in DeclaredScores :
            graph_service.entities[e].risk_score
                = Min(100, declared
                           + Sum([s \in Naming(e) |->
                                     Step[graph_service.sars[s].risk_level]],
                                 Naming(e)))

---------------------------------------------------------------------------
(* The graph and the transaction map *)

\* C26: the graph and the transaction map agree: every edge u -> v carries
\* the id of a stored transaction with sender u, receiver v and the edge's
\* amount, and every stored transaction has an edge from its sender to its
\* receiver; so an id reported for an edge is a transaction between the
\* edge's endpoints.
C26_GraphAgreesWithTransactions ==
    /\ \A x \in DOMAIN graph_service.graph_edges :
          LET edge == graph_service.graph_edges[x]
          IN  /\ edge.transaction_id \in DOMAIN graph_service.transactions
              /\ graph_service.transactions[edge.transaction_id].sender_id = x[1]
              /\ graph_service.transactions[edge.transaction_id].receiver_id = x[2]
              /\ graph_service.transactions[edge.transaction_id].amount = edge.amount
    /\ \A t \in DOMAIN graph_service.transactions :
          <<graph_service.transactions[t].sender_id,
            graph_service.transactions[t].receiver_id>>
              \in DOMAIN graph_service.graph_edges

---------------------------------------------------------------------------
(* Derived entity risk from one state to the next *)

\* entityRiskScore(entity_id) in the store `self`
EntityRiskScore(self, entity_id) ==
    GraphRAGService_compute_entity_risk_score(self, entity_id, node_order(self))

\* C27: while no entity is re-added, entityRiskScore(id) of every declared
\* entity does not decrease when a transaction is added or a SAR is filed,
\* a filing that reuses a stored sar_id included.
C27_ScoreNeverDecreases ==
    request.op \in {"add_transaction", "add_sar"} =>
        \A e \in DOMAIN before.entities \cap DOMAIN graph_service.entities :
            EntityRiskScore(graph_service, e) >= EntityRiskScore(before, e)

---------------------------------------------------------------------------
(* The embedding cache *)

\* C28: the embedding cached for a sar id is the embedding of the narrative
\* of the SAR stored under that id, also after the id was filed again with
\* another narrative: no cache entry is stale.
C28_CacheIsFresh ==
    \A s \in DOMAIN ai_service.sar_embeddings :
        /\ s \in DOMAIN graph_service.sars
        /\ is_str(graph_service.sars[s].narrative)
        /\ ai_service.sar_embeddings[s]
               = create_simple_embedding(graph_service.sars[s].narrative)

\* the same for the ids whose stored narrative is a string
C28_FreshForStrings ==
    \A s \in DOMAIN ai_service.sar_embeddings :
        /\ s \in DOMAIN graph_service.sars
        /\ is_str(graph_service.sars[s].narrative) =>
              ai_service.sar_embeddings[s]
                  = create_simple_embedding(graph_service.sars[s].narrative)

====
